---- MODULE Spec2Model ----
(***************************************************************************)
(* Similarity engine of mlb-player-comparisons: MetricNormalizer,          *)
(* DistanceCalculator, SimilarityEngine and PitchSimilarityEngine.         *)
(*                                                                         *)
(* Numbers.  The code computes in floating point; the model computes the   *)
(* same expressions exactly.  A rational is a pair <<n, d>> in lowest      *)
(* terms with d > 0.  A z-score (v - mean) / std is kept as the record     *)
(* [num |-> v - mean, rad |-> std * std]: the real number num / sqrt(rad). *)
(* A distance np.sqrt(x) is kept as [rad |-> x]; float("inf") is Inf.      *)
(* A nullable cell of a table is NA (pandas NaN / None) or <<v>>.          *)
(***************************************************************************)
EXTENDS Integers, Sequences, FiniteSets, TLC

VARIABLES
    cfg,          \* the constructed object's configuration (kind, weights, ...)
    dataset,      \* self.dataset: the working table, a sequence of rows
    normalizer,   \* the fitted MetricNormalizer state(s)
    max_distance, \* self.max_distance
    pc,           \* "idle": no call in progress; "returned": a result is held
    call,         \* the arguments of the call that produced ret
    ret,          \* the value the call returned
    io            \* the file system and calculator requests of the last step

vars == <<cfg, dataset, normalizer, max_distance, pc, call, ret, io>>

----------------------------------------------------------------------------
(* Bounds of the model.                                                    *)

\* z-scores handed to calculate_distance directly range over -MaxZ..MaxZ
MaxZ == 1
\* top_n ranges over 0..MaxTopN
MaxTopN == 2

----------------------------------------------------------------------------
(* Exact arithmetic.                                                       *)

NA == <<>>
isna(c) == c = NA
notna(c) == c # NA
Some(v) == <<v>>
Val(c) == c[1]

Abs(x) == IF x < 0 THEN -x ELSE x

RECURSIVE GCD(_, _)
GCD(a, b) == IF b = 0 THEN a ELSE GCD(b, a % b)

RNorm(r) ==
    LET g == GCD(Abs(r[1]), Abs(r[2]))
        s == IF r[2] < 0 THEN -1 ELSE 1
    IN  <<(s * r[1]) \div g, (s * r[2]) \div g>>

RInt(k) == <<k, 1>>
Zero == RInt(0)
One == RInt(1)
RAdd(a, b) == RNorm(<<a[1] * b[2] + b[1] * a[2], a[2] * b[2]>>)
RSub(a, b) == RNorm(<<a[1] * b[2] - b[1] * a[2], a[2] * b[2]>>)
RMul(a, b) == RNorm(<<a[1] * b[1], a[2] * b[2]>>)
RDiv(a, b) == RNorm(<<a[1] * b[2], a[2] * b[1]>>)
RLess(a, b) == a[1] * b[2] < b[1] * a[2]
RLeq(a, b) == a[1] * b[2] <= b[1] * a[2]
\* a weight written in tenths, as the metric definitions give them
Tenths(k) == RNorm(<<k, 10>>)

\* the z-score k, for a column whose standard deviation is 1
ZInt(k) == [num |-> RInt(k), rad |-> One]
\* (a - b) ** 2 for two z-scores of one column (they share the column's std)
ZDiffSq(a, b) ==
    LET d == RSub(a.num, b.num) IN RDiv(RMul(d, d), a.rad)

Inf == [inf |-> TRUE]
Sqrt(x) == [inf |-> FALSE, rad |-> x]
IsInf(d) == d.inf
\* d1 < d2 for two distances; nothing is smaller than itself, inf included
DistLess(d1, d2) ==
    /\ ~d1.inf
    /\ (d2.inf \/ RLess(d1.rad, d2.rad))

----------------------------------------------------------------------------
(* Metric definitions.                                                     *)

METRIC_WEIGHTS ==
    [m \in {"exit_velocity", "max_exit_velocity", "launch_angle", "barrel_pct",
            "hard_hit_pct", "pulled_fb_pct", "chase_rate", "whiff_pct",
            "swstr_pct", "k_pct", "bb_pct", "zone_contact_pct", "gb_pct"} |->
        CASE m \in {"exit_velocity", "barrel_pct"} -> Tenths(10)
          [] m \in {"hard_hit_pct", "chase_rate", "whiff_pct"} -> Tenths(9)
          [] m = "launch_angle" -> Tenths(7)
          [] m = "gb_pct" -> Tenths(6)
          [] OTHER -> Tenths(8)]

PRIMARY_METRICS ==
    <<"exit_velocity", "max_exit_velocity", "launch_angle", "barrel_pct",
      "hard_hit_pct", "pulled_fb_pct", "chase_rate", "zone_contact_pct",
      "whiff_pct", "swstr_pct", "k_pct", "bb_pct", "gb_pct">>

SeqToSet(s) == {s[i] : i \in 1..Len(s)}

----------------------------------------------------------------------------
(* DistanceCalculator.                                                     *)

\* f"{m}_z"
ZCol(m) == m \o "_z"

\* every column name the model's tables and z-rows use
BaseNames ==
    {"exit_velocity", "max_exit_velocity", "launch_angle", "barrel_pct",
     "hard_hit_pct", "pulled_fb_pct", "chase_rate", "whiff_pct", "swstr_pct",
     "k_pct", "bb_pct", "zone_contact_pct", "gb_pct", "xwoba",
     "ip", "k_bb_pct", "xera", "xfip", "barrel_pct_against",
     "hard_hit_pct_against", "stuff_plus", "lob_pct", "babip", "chase_pct",
     "zone_pct", "arm_angle",
     "avg_velo", "avg_ivb", "avg_ihb", "avg_spin"}

\* z_col.replace("_z", ""): no column name of the model holds "_z" elsewhere
\* than as the suffix ZCol adds, so the replacement strips that suffix
replace_z(z_col) ==
    IF \E m \in BaseNames : ZCol(m) = z_col
    THEN CHOOSE m \in BaseNames : ZCol(m) = z_col
    ELSE z_col

\* dict.get(key, default)
dict_get(d, key, default) == IF key \in DOMAIN d THEN d[key] ELSE default

\* Series.get(key): None when the row has no such column
series_get(row, key) == IF key \in DOMAIN row THEN row[key] ELSE NA

RECURSIVE distance_loop(_, _, _, _, _, _)
distance_loop(weights, target, candidate, z_columns, i, acc) ==
    IF i > Len(z_columns) THEN acc
    ELSE
      LET z_col == z_columns[i]
          base_col == replace_z(z_col)
          weight == dict_get(weights, base_col, One)
          target_val == series_get(target, z_col)
          candidate_val == series_get(candidate, z_col)
      IN  IF isna(target_val) \/ isna(candidate_val)
          THEN distance_loop(weights, target, candidate, z_columns, i + 1, acc)
          ELSE distance_loop(weights, target, candidate, z_columns, i + 1,
                 [total_distance |->
                     RAdd(acc.total_distance,
                          RMul(weight, ZDiffSq(Val(target_val), Val(candidate_val)))),
                  total_weight |-> RAdd(acc.total_weight, weight)])

\* faulty variant: the accumulated sum is divided by the accumulated weight
calculate_distance_weight_normalised(weights, target, candidate, z_columns) ==
    LET acc == distance_loop(weights, target, candidate, z_columns, 1,
                             [total_distance |-> Zero, total_weight |-> Zero])
    IN  IF acc.total_weight = Zero THEN Inf
        ELSE Sqrt(RDiv(acc.total_distance, acc.total_weight))

\* faulty variant: a missing z-score is read as 0 instead of being skipped
calculate_distance_zero_imputed(weights, target, candidate, z_columns) ==
    LET fill(row) ==
            [c \in DOMAIN row |-> IF isna(row[c]) THEN Some(ZInt(0)) ELSE row[c]]
        acc == distance_loop(weights, fill(target), fill(candidate), z_columns, 1,
                             [total_distance |-> Zero, total_weight |-> Zero])
    IN  IF acc.total_weight = Zero THEN Inf ELSE Sqrt(acc.total_distance)

\* faulty variant: a z-score missing on the candidate's side is read as 0
calculate_distance_candidate_filled(weights, target, candidate, z_columns) ==
    LET fill(row) ==
            [c \in DOMAIN row |-> IF isna(row[c]) THEN Some(ZInt(0)) ELSE row[c]]
        acc == distance_loop(weights, target, fill(candidate), z_columns, 1,
                             [total_distance |-> Zero, total_weight |-> Zero])
    IN  IF acc.total_weight = Zero THEN Inf ELSE Sqrt(acc.total_distance)

calculate_distance(weights, target, candidate, z_columns) ==
    LET acc == distance_loop(weights, target, candidate, z_columns, 1,
                             [total_distance |-> Zero, total_weight |-> Zero])
    IN  IF acc.total_weight = Zero THEN Inf ELSE Sqrt(acc.total_distance)

----------------------------------------------------------------------------
(* SpecDist: a DistanceCalculator called directly on two z-rows.           *)

NoCall == [op |-> "none"]
NoRet == [op |-> "none"]

\* the z-columns of the rows handed to calculate_distance; xwoba has no
\* configured weight
DistCols == <<"exit_velocity_z", "k_pct_z", "xwoba_z">>
ZCells == {NA} \cup {Some(ZInt(k)) : k \in (0 - MaxZ)..MaxZ}
ZRows == [SeqToSet(DistCols) -> ZCells]
\* the dimension lists: every sublist of DistCols, in order
RECURSIVE SubSeqs(_)
SubSeqs(s) ==
    IF s = <<>> THEN {<<>>}
    ELSE LET rest == SubSeqs(Tail(s))
         IN  rest \cup {<<Head(s)>> \o r : r \in rest}

InitDist ==
    /\ cfg = [kind |-> "calc", weights |-> METRIC_WEIGHTS]
    /\ dataset = <<>>
    /\ normalizer = [fitted |-> FALSE]
    /\ max_distance = NA
    /\ pc = "idle"
    /\ call = NoCall
    /\ ret = NoRet
    /\ io = <<>>

CalculateDistance(target, candidate, z_columns) ==
    /\ cfg.kind = "calc"
    /\ pc = "idle"
    /\ call' = [op |-> "calculate_distance", target |-> target,
                candidate |-> candidate, z_columns |-> z_columns]
    /\ ret' = calculate_distance(cfg.weights, target, candidate, z_columns)
    /\ pc' = "returned"
    /\ io' = <<>>
    /\ UNCHANGED <<cfg, dataset, normalizer, max_distance>>

\* the caller takes the returned value; the object is ready for the next call
Return ==
    /\ pc = "returned"
    /\ pc' = "idle"
    /\ call' = NoCall
    /\ ret' = NoRet
    /\ io' = <<>>
    /\ UNCHANGED <<cfg, dataset, normalizer, max_distance>>

\* the guards on pc stand before the quantifiers, so that a state in which no
\* call can start enumerates no arguments
NextDist ==
    \/ /\ pc = "idle"
       /\ \E target \in ZRows, candidate \in ZRows, z_columns \in SubSeqs(DistCols) :
             CalculateDistance(target, candidate, z_columns)
    \/ Return

SpecDist == InitDist /\ [][NextDist]_vars

----------------------------------------------------------------------------
(* MetricNormalizer.  A fitted standard deviation is kept as its square.   *)

RECURSIVE SumInt(_, _)
SumInt(f, S) ==
    IF S = {} THEN 0
    ELSE LET x == CHOOSE y \in S : TRUE
         IN  f[x] + SumInt(f, S \ {x})

Columns(df) == IF df = <<>> THEN {} ELSE DOMAIN df[1]
\* df[col].dropna(): the positions of the rows that hold a value
dropna(df, col) == {i \in 1..Len(df) : notna(df[i][col])}

\* col_data.mean(): NaN for an empty column
mean(df, col) ==
    LET idx == dropna(df, col)
        n == Cardinality(idx)
        S == SumInt([i \in idx |-> Val(df[i][col])], idx)
    IN  IF n = 0 THEN NA ELSE Some(RNorm(<<S, n>>))

\* col_data.std() squared (sample variance, ddof = 1): NaN below two values
std(df, col) ==
    LET idx == dropna(df, col)
        n == Cardinality(idx)
        S == SumInt([i \in idx |-> Val(df[i][col])], idx)
        Q == SumInt([i \in idx |-> Val(df[i][col]) * Val(df[i][col])], idx)
    IN  IF n < 2 THEN NA ELSE Some(RNorm(<<n * Q - S * S, n * (n - 1)>>))

NewNormalizer == [means |-> <<>>, stds |-> <<>>, fitted |-> FALSE]

\* faulty variant: a zero standard deviation is stored as it is
fit_no_floor(norm, df, columns) ==
    LET cols == {c \in SeqToSet(columns) : c \in Columns(df)}
        keys == DOMAIN norm.means \cup cols
    IN  [means |-> [c \in keys |-> IF c \in cols THEN mean(df, c) ELSE norm.means[c]],
         stds |-> [c \in keys |-> IF c \in cols THEN std(df, c) ELSE norm.stds[c]],
         fitted |-> TRUE]

\* faulty variant: a column without a value is skipped like an absent column
fit_skip_empty(norm, df, columns) ==
    LET cols == {c \in SeqToSet(columns) : c \in Columns(df) /\ dropna(df, c) # {}}
        keys == DOMAIN norm.means \cup cols
    IN  [means |-> [c \in keys |-> IF c \in cols THEN mean(df, c) ELSE norm.means[c]],
         stds |-> [c \in keys |->
                     IF c \in cols
                     THEN IF std(df, c) = Some(Zero) THEN Some(One) ELSE std(df, c)
                     ELSE norm.stds[c]],
         fitted |-> TRUE]

\* MetricNormalizer.fit
fit(norm, df, columns) ==
    LET cols == {c \in SeqToSet(columns) : c \in Columns(df)}
        keys == DOMAIN norm.means \cup cols
    IN  [means |-> [c \in keys |-> IF c \in cols THEN mean(df, c) ELSE norm.means[c]],
         stds |-> [c \in keys |->
                     IF c \in cols
                     THEN IF std(df, c) = Some(Zero) THEN Some(One) ELSE std(df, c)
                     ELSE norm.stds[c]],
         fitted |-> TRUE]

\* faulty variant: a row without a value is scored as the mean
z_score_missing_as_mean(cell, m, sd) ==
    IF isna(m) \/ isna(sd) THEN NA
    ELSE IF isna(cell) THEN Some([num |-> Zero, rad |-> Val(sd)])
    ELSE Some([num |-> RSub(RInt(Val(cell)), Val(m)), rad |-> Val(sd)])

\* (df[col] - mean) / std for one cell; NaN when any operand is NaN
z_score(cell, m, sd) ==
    IF isna(cell) \/ isna(m) \/ isna(sd) THEN NA
    ELSE Some([num |-> RSub(RInt(Val(cell)), Val(m)), rad |-> Val(sd)])

\* faulty variant: the rows are scored against their own mean and deviation
transform_own_stats(norm, df, columns) ==
    LET cols_to_transform ==
            IF columns # <<>> THEN SeqToSet(columns) ELSE DOMAIN norm.means
        done == {c \in cols_to_transform :
                    c \in Columns(df) /\ c \in DOMAIN norm.means}
        zcols == {ZCol(c) : c \in done}
        base(z) == CHOOSE c \in done : ZCol(c) = z
    IN  [i \in 1..Len(df) |->
            [c \in DOMAIN df[i] \cup zcols |->
                IF c \in zcols
                THEN z_score(df[i][base(c)], mean(df, base(c)), std(df, base(c)))
                ELSE df[i][c]]]

\* MetricNormalizer.transform of a fitted normalizer: a new table with a
\* z-score column for every requested column that is fitted and in the table
transform(norm, df, columns) ==
    LET cols_to_transform ==
            IF columns # <<>> THEN SeqToSet(columns) ELSE DOMAIN norm.means
        done == {c \in cols_to_transform :
                    c \in Columns(df) /\ c \in DOMAIN norm.means}
        zcols == {ZCol(c) : c \in done}
        base(z) == CHOOSE c \in done : ZCol(c) = z
    IN  [i \in 1..Len(df) |->
            [c \in DOMAIN df[i] \cup zcols |->
                IF c \in zcols
                THEN z_score(df[i][base(c)], norm.means[base(c)], norm.stds[base(c)])
                ELSE df[i][c]]]

\* MetricNormalizer.get_z_score
get_z_score(norm, column, value) ==
    IF column \notin DOMAIN norm.means
    THEN [raised |-> TRUE, error |-> "ValueError"]
    ELSE [raised |-> FALSE,
          value |-> z_score(Some(value), norm.means[column], norm.stds[column])]

\* MetricNormalizer.get_stats
get_stats(norm, column) ==
    IF column \notin DOMAIN norm.means
    THEN [raised |-> TRUE, error |-> "ValueError"]
    ELSE [raised |-> FALSE, mean |-> norm.means[column], std |-> norm.stds[column]]

\* MetricNormalizer.fitted_columns
fitted_columns(norm) == DOMAIN norm.means

----------------------------------------------------------------------------
(* A MetricNormalizer used on its own: SpecNorm.  dataset and cfg.columns  *)
(* record the arguments of the last fit; the normalizer keeps only the     *)
(* statistics.                                                             *)

\* a table handed to the normalizer has 1..MaxRows rows
MaxRows == 3

KValues == {NA, Some(20), Some(22)}
\* the k_pct cells of a row scored after the fit: 25 is in no fitted table
ScoredKValues == {NA, Some(20), Some(25)}
BBValues == {NA, Some(8)}
\* the statistics of a column do not depend on the order of the rows: one
\* table stands for its reorderings, the one whose rows ascend
CellRank(c) == IF isna(c) THEN 0 ELSE Val(c)
RowRank(r) ==
    100 * CellRank(r["k_pct"]) + (IF "bb_pct" \in DOMAIN r THEN CellRank(r["bb_pct"]) ELSE 0)
Ascending(df) == \A i \in 1..(Len(df) - 1) : RowRank(df[i]) <= RowRank(df[i + 1])
TablesOver(R) == {df \in UNION {[1..n -> R] : n \in 1..MaxRows} : Ascending(df)}
\* tables with both metric columns, and tables without the bb_pct column
NormTables ==
    TablesOver([k_pct : KValues, bb_pct : BBValues]) \cup TablesOver([k_pct : KValues])
FitColumns == {<<"k_pct", "bb_pct">>, <<"k_pct">>}
\* the tables handed to transform: the fitted rows again, or one row
TransformTables ==
    {<<r>> : r \in [k_pct : ScoredKValues, bb_pct : BBValues] \cup [k_pct : ScoredKValues]}
        \cup (IF dataset = <<>> THEN {} ELSE {dataset})
\* transform's columns argument: None (or an empty list) means every fitted column
TransformColumns == {<<>>, <<"k_pct", "bb_pct">>}
ScoreColumns == {"k_pct", "bb_pct"}
ScoreValues == {20, 25}

InitNorm ==
    /\ cfg = [kind |-> "normalizer", columns |-> <<>>]
    /\ dataset = <<>>
    /\ normalizer = NewNormalizer
    /\ max_distance = NA
    /\ pc = "idle"
    /\ call = NoCall
    /\ ret = NoRet
    /\ io = <<>>

Fit(df, columns) ==
    /\ cfg.kind = "normalizer"
    /\ pc = "idle"
    /\ call' = [op |-> "fit", df |-> df, columns |-> columns]
    /\ normalizer' = fit(normalizer, df, columns)
    /\ ret' = [raised |-> FALSE]
    /\ dataset' = df
    /\ cfg' = [cfg EXCEPT !.columns = columns]
    /\ pc' = "returned"
    /\ io' = <<>>
    /\ UNCHANGED max_distance

FitTransform(df, columns) ==
    /\ cfg.kind = "normalizer"
    /\ pc = "idle"
    /\ call' = [op |-> "fit_transform", df |-> df, columns |-> columns]
    /\ normalizer' = fit(normalizer, df, columns)
    /\ ret' = [raised |-> FALSE, rows |-> transform(normalizer', df, columns)]
    /\ dataset' = df
    /\ cfg' = [cfg EXCEPT !.columns = columns]
    /\ pc' = "returned"
    /\ io' = <<>>
    /\ UNCHANGED max_distance

Transform(df, columns) ==
    /\ cfg.kind = "normalizer"
    /\ pc = "idle"
    /\ call' = [op |-> "transform", df |-> df, columns |-> columns]
    /\ ret' = IF ~normalizer.fitted
              THEN [raised |-> TRUE, error |-> "ValueError"]
              ELSE [raised |-> FALSE, rows |-> transform(normalizer, df, columns)]
    /\ pc' = "returned"
    /\ io' = <<>>
    /\ UNCHANGED <<cfg, dataset, normalizer, max_distance>>

GetZScore(column, value) ==
    /\ cfg.kind = "normalizer"
    /\ pc = "idle"
    /\ call' = [op |-> "get_z_score", column |-> column, value |-> value]
    /\ ret' = get_z_score(normalizer, column, value)
    /\ pc' = "returned"
    /\ io' = <<>>
    /\ UNCHANGED <<cfg, dataset, normalizer, max_distance>>

GetStats(column) ==
    /\ cfg.kind = "normalizer"
    /\ pc = "idle"
    /\ call' = [op |-> "get_stats", column |-> column]
    /\ ret' = get_stats(normalizer, column)
    /\ pc' = "returned"
    /\ io' = <<>>
    /\ UNCHANGED <<cfg, dataset, normalizer, max_distance>>

FittedColumns ==
    /\ cfg.kind = "normalizer"
    /\ pc = "idle"
    /\ call' = [op |-> "fitted_columns"]
    /\ ret' = [raised |-> FALSE, columns |-> fitted_columns(normalizer)]
    /\ pc' = "returned"
    /\ io' = <<>>
    /\ UNCHANGED <<cfg, dataset, normalizer, max_distance>>

NextNorm ==
    \/ /\ pc = "idle"
       /\ \E df \in NormTables, columns \in FitColumns : Fit(df, columns)
    \/ /\ pc = "idle"
       /\ \E df \in NormTables, columns \in FitColumns : FitTransform(df, columns)
    \/ /\ pc = "idle"
       /\ \E df \in TransformTables, columns \in TransformColumns : Transform(df, columns)
    \/ /\ pc = "idle"
       /\ \E column \in ScoreColumns, value \in ScoreValues : GetZScore(column, value)
    \/ /\ pc = "idle"
       /\ \E column \in ScoreColumns : GetStats(column)
    \/ FittedColumns
    \/ Return

SpecNorm == InitNorm /\ [][NextNorm]_vars

----------------------------------------------------------------------------
(* Metric configurations.                                                  *)

\* xwOBA is held in thousandths: 0.030
SANITY_CHECK_TOLERANCE == 30
\* xERA is held in tenths: 0.50
PITCHER_SANITY_CHECK_TOLERANCE == 5
\* GS / G >= 0.5 makes a starter: the ratio's numerator and denominator
STARTER_GS_RATIO == <<1, 2>>
MIN_STARTER_COMP_IP == 80

BATTER_LOWER_IS_BETTER ==
    {"chase_rate", "whiff_pct", "swstr_pct", "k_pct", "gb_pct"}

\* MetricDefinition.higher_is_better of every entry of METRIC_DEFINITIONS
METRIC_HIGHER_IS_BETTER ==
    [m \in {"exit_velocity", "max_exit_velocity", "launch_angle", "barrel_pct",
            "hard_hit_pct", "pulled_fb_pct", "chase_rate", "whiff_pct",
            "swstr_pct", "k_pct", "bb_pct", "zone_contact_pct", "gb_pct"} |->
        m \notin {"chase_rate", "whiff_pct", "swstr_pct", "k_pct"}]

PITCHER_METRIC_WEIGHTS ==
    [m \in {"ip", "k_pct", "bb_pct", "k_bb_pct", "gb_pct", "xera", "xfip",
            "barrel_pct_against", "hard_hit_pct_against", "stuff_plus",
            "lob_pct", "babip", "chase_pct", "whiff_pct", "zone_pct",
            "zone_contact_pct", "arm_angle"} |->
        CASE m = "ip" -> Tenths(12)
          [] m \in {"k_pct", "bb_pct", "k_bb_pct", "barrel_pct_against"} -> Tenths(10)
          [] m \in {"xfip", "hard_hit_pct_against", "whiff_pct"} -> Tenths(9)
          [] m \in {"gb_pct", "stuff_plus", "chase_pct", "zone_contact_pct"} -> Tenths(8)
          [] m = "zone_pct" -> Tenths(7)
          [] m = "lob_pct" -> Tenths(6)
          [] OTHER -> Tenths(5)]

PITCHER_PRIMARY_METRICS ==
    <<"k_pct", "bb_pct", "k_bb_pct", "barrel_pct_against", "hard_hit_pct_against",
      "whiff_pct", "xfip", "chase_pct", "stuff_plus", "gb_pct", "zone_contact_pct",
      "zone_pct", "lob_pct", "babip", "xera", "ip", "arm_angle">>

PITCHER_LOWER_IS_BETTER ==
    {"bb_pct", "xera", "xfip", "barrel_pct_against", "hard_hit_pct_against",
     "babip", "zone_contact_pct"}

\* MetricDefinition.higher_is_better of every entry of
\* PITCHER_METRIC_DEFINITIONS
PITCHER_METRIC_HIGHER_IS_BETTER ==
    [m \in {"ip", "k_pct", "bb_pct", "k_bb_pct", "gb_pct", "xera", "xfip",
            "barrel_pct_against", "hard_hit_pct_against", "stuff_plus",
            "lob_pct", "babip", "chase_pct", "whiff_pct", "zone_pct",
            "zone_contact_pct", "arm_angle"} |->
        m \notin {"bb_pct", "xera", "xfip", "barrel_pct_against",
                  "hard_hit_pct_against", "babip", "zone_contact_pct", "arm_angle"}]

\* get_metric_config(player_type)
get_metric_config(player_type) ==
    IF player_type = "batter"
    THEN [player_type |-> "batter",
          metric_weights |-> METRIC_WEIGHTS,
          primary_metrics |-> PRIMARY_METRICS,
          sanity_check_metric |-> "xwoba",
          sanity_check_tolerance |-> SANITY_CHECK_TOLERANCE,
          lower_is_better |-> BATTER_LOWER_IS_BETTER,
          result_stats |-> <<"G", "PA", "AVG", "OBP", "SLG", "OPS", "wRC+">>]
    ELSE [player_type |-> "pitcher",
          metric_weights |-> PITCHER_METRIC_WEIGHTS,
          primary_metrics |-> PITCHER_PRIMARY_METRICS,
          sanity_check_metric |-> "xera",
          sanity_check_tolerance |-> PITCHER_SANITY_CHECK_TOLERANCE,
          lower_is_better |-> PITCHER_LOWER_IS_BETTER,
          result_stats |-> <<"G", "GS", "IP", "ERA", "W", "L", "K", "BB",
                             "WHIP", "FIP", "WAR">>]

----------------------------------------------------------------------------
(* Display values.  max_distance and the similarity score only scale the   *)
(* output; they are kept in fixed point: max_distance and a distance in    *)
(* hundredths (rounded down), a similarity in tenths, as round(x, 1) gives.*)

RECURSIVE ISqrtBetween(_, _, _)
ISqrtBetween(n, lo, hi) ==
    IF lo >= hi THEN lo
    ELSE LET mid == (lo + hi + 1) \div 2
         IN  IF mid * mid <= n THEN ISqrtBetween(n, mid, hi)
             ELSE ISqrtBetween(n, lo, mid - 1)
\* the square root of the rational r, in hundredths, rounded down
SqrtHundredths(r) == ISqrtBetween((r[1] * 10000) \div r[2], 0, 40000)

\* faulty variant: the score is not brought into [0, 100]
distance_to_similarity_unclamped(distance, max_dist) ==
    IF max_dist = 0 THEN 1000
    ELSE IF IsInf(distance) THEN 0
    ELSE 1000 - (1000 * SqrtHundredths(distance.rad)) \div max_dist

\* DistanceCalculator.distance_to_similarity, then round(similarity, 1);
\* (1 - inf / max_distance) * 100 is -inf, which the clamp raises to 0
distance_to_similarity(distance, max_dist) ==
    IF max_dist = 0 THEN 1000
    ELSE IF IsInf(distance) THEN 0
    ELSE LET similarity == 1000 - (1000 * SqrtHundredths(distance.rad)) \div max_dist
         IN  IF similarity < 0 THEN 0
             ELSE IF similarity > 1000 THEN 1000 ELSE similarity

RECURSIVE RSumSeq(_)
RSumSeq(s) == IF s = <<>> THEN Zero ELSE RAdd(Head(s), RSumSeq(Tail(s)))

\* a z-score in hundredths (rounded toward zero)
ZHundredths(z) ==
    LET h == SqrtHundredths(RDiv(RMul(z.num, z.num), z.rad))
    IN  IF z.num[1] < 0 THEN 0 - h ELSE h

\* the z-range estimate of _prepare_dataset and _normalize_by_pitch_type,
\* in hundredths; 10.0 when no z-column holds a value
estimate_max_distance(df, z_columns, weights) ==
    LET present == {c \in SeqToSet(z_columns) :
                       c \in Columns(df) /\ dropna(df, c) # {}}
        z_range(c) ==
            LET idx == dropna(df, c)
                zs == [i \in idx |-> ZHundredths(Val(df[i][c]))]
                hi == CHOOSE i \in idx : \A j \in idx : zs[j] <= zs[i]
                lo == CHOOSE i \in idx : \A j \in idx : zs[i] <= zs[j]
            IN  zs[hi] - zs[lo]
        total_weight ==
            RSumSeq([i \in 1..Len(z_columns) |->
                        dict_get(weights, replace_z(z_columns[i]), One)])
    IN  IF present = {} THEN 1000
        ELSE (SumInt([c \in present |-> z_range(c)], present)
                * SqrtHundredths(total_weight) * 15)
             \div (Cardinality(present) * 1000)

----------------------------------------------------------------------------
(* SimilarityEngine.                                                       *)

\* SimilarityEngine.__init__ before _prepare_dataset; `a or b` takes b when
\* a is None or 0. The field xwoba_tolerance keeps the argument the engine was
\* constructed with.
NewEngine(player_type, xwoba_tolerance) ==
    LET config == get_metric_config(player_type)
    IN  [kind |-> player_type,
         xwoba_tolerance |-> xwoba_tolerance,
         weights |-> config.metric_weights,
         sanity_tolerance |->
             IF notna(xwoba_tolerance) /\ Val(xwoba_tolerance) # 0
             THEN Val(xwoba_tolerance) ELSE config.sanity_check_tolerance,
         sanity_metric |-> config.sanity_check_metric,
         primary_metrics |-> config.primary_metrics,
         lower_is_better |-> config.lower_is_better,
         result_stats |-> config.result_stats,
         is_batter |-> config.player_type = "batter",
         metrics_used |-> <<>>,
         z_columns |-> <<>>]

\* faulty variant: the table's columns are not looked at
available_metrics_unchecked(primary_metrics, df) == primary_metrics

\* [m for m in self.primary_metrics if m in self.dataset.columns]
available_metrics(primary_metrics, df) ==
    LET present(m) == m \in Columns(df) IN SelectSeq(primary_metrics, present)

z_names(metrics) == [i \in 1..Len(metrics) |-> ZCol(metrics[i])]

Indices(df) == [i \in 1..Len(df) |-> i]

\* faulty variant: the season is not compared
target_mask_any_season(df, player_id, season) ==
    {i \in 1..Len(df) : df[i]["mlbam_id"] = player_id}

\* (dataset["mlbam_id"] == player_id) & (dataset["season"] == season)
target_mask(df, player_id, season) ==
    {i \in 1..Len(df) : df[i]["mlbam_id"] = player_id /\ df[i]["season"] = season}

FirstOf(S) == CHOOSE i \in S : \A j \in S : i <= j

\* faulty variant: the player's other rows always stay
candidate_pool_keep_same_player(df, mask, player_id, exclude_same_player) ==
    LET keep(i) == i \notin mask IN SelectSeq(Indices(df), keep)

\* find_similar, lines 125-129: every row but the target's; without the
\* player's other rows when exclude_same_player
candidate_pool(df, mask, player_id, exclude_same_player) ==
    LET keep(i) == /\ i \notin mask
                   /\ (exclude_same_player => df[i]["mlbam_id"] # player_id)
    IN  SelectSeq(Indices(df), keep)

\* faulty variant: the bounds of the tolerance window are exclusive
sanity_filter_exclusive(c, df, target, candidates) ==
    IF c.sanity_metric \in Columns(df) /\ notna(target[c.sanity_metric])
    THEN LET target_sanity == Val(target[c.sanity_metric])
             keep(i) ==
                 /\ notna(df[i][c.sanity_metric])
                 /\ Val(df[i][c.sanity_metric]) > target_sanity - c.sanity_tolerance
                 /\ Val(df[i][c.sanity_metric]) < target_sanity + c.sanity_tolerance
         IN  SelectSeq(candidates, keep)
    ELSE candidates

\* find_similar, lines 131-141: the sanity check metric filter; a comparison
\* with NaN is false
sanity_filter(c, df, target, candidates) ==
    IF c.sanity_metric \in Columns(df) /\ notna(target[c.sanity_metric])
    THEN LET target_sanity == Val(target[c.sanity_metric])
             keep(i) ==
                 /\ notna(df[i][c.sanity_metric])
                 /\ Val(df[i][c.sanity_metric]) >= target_sanity - c.sanity_tolerance
                 /\ Val(df[i][c.sanity_metric]) <= target_sanity + c.sanity_tolerance
         IN  SelectSeq(candidates, keep)
    ELSE candidates

\* Series.fillna(0) on one cell
fillna0(cell) == IF isna(cell) THEN 0 ELSE Val(cell)

\* gs / g >= STARTER_GS_RATIO for g > 0; gs / NaN >= ratio is false
ratio_is_starter(gs, g) ==
    g # 0 /\ gs * STARTER_GS_RATIO[2] >= STARTER_GS_RATIO[1] * g

\* _filter_by_pitcher_role, lines 291-303: whether candidate row i stays
role_keep(df, target_is_starter, i) ==
    LET cand_is_starter ==
            ratio_is_starter(fillna0(df[i]["GS"]), fillna0(df[i]["G"]))
    IN  IF target_is_starter
        THEN cand_is_starter /\ fillna0(df[i]["IP"]) >= MIN_STARTER_COMP_IP
        ELSE ~cand_is_starter

\* faulty variant: a target without a games-started value counts as a reliever
filter_by_pitcher_role_gs_default(df, target, candidates) ==
    LET target_g == series_get(target, "G")
        target_gs == series_get(target, "GS")
        target_is_starter == ratio_is_starter(fillna0(target_gs), Val(target_g))
        keep(i) == role_keep(df, target_is_starter, i)
    IN  IF isna(target_g) \/ Val(target_g) = 0 THEN [raised |-> FALSE, rows |-> candidates]
        ELSE IF "G" \notin Columns(df) \/ "GS" \notin Columns(df)
             THEN [raised |-> FALSE, rows |-> candidates]
        ELSE IF target_is_starter /\ "IP" \notin Columns(df)
             THEN [raised |-> TRUE, rows |-> <<>>]
        ELSE [raised |-> FALSE, rows |-> SelectSeq(candidates, keep)]

\* _filter_by_pitcher_role; candidates["IP"] raises KeyError without the column
filter_by_pitcher_role(df, target, candidates) ==
    LET target_g == series_get(target, "G")
        target_gs == series_get(target, "GS")
        target_is_starter == ratio_is_starter(Val(target_gs), Val(target_g))
        keep(i) == role_keep(df, target_is_starter, i)
    IN  IF isna(target_g) \/ Val(target_g) = 0 THEN [raised |-> FALSE, rows |-> candidates]
        ELSE IF isna(target_gs) THEN [raised |-> FALSE, rows |-> candidates]
        ELSE IF "G" \notin Columns(df) \/ "GS" \notin Columns(df)
             THEN [raised |-> FALSE, rows |-> candidates]
        ELSE IF target_is_starter /\ "IP" \notin Columns(df)
             THEN [raised |-> TRUE, rows |-> <<>>]
        ELSE [raised |-> FALSE, rows |-> SelectSeq(candidates, keep)]

\* the two metric groups of _filter_candidates_by_metrics
coverage_groups(is_batter) ==
    IF is_batter
    THEN <<{"exit_velocity", "barrel_pct", "hard_hit_pct", "launch_angle"},
           {"chase_rate", "whiff_pct", "k_pct", "bb_pct"}>>
    ELSE <<{"k_pct", "whiff_pct", "chase_pct", "stuff_plus"},
           {"bb_pct", "xfip", "xera", "zone_pct"}>>

\* candidates[group_z].notna().sum(axis=1) for one row; 0 for an empty list
notna_count(row, group, z_columns) ==
    Cardinality({m \in group :
        ZCol(m) \in SeqToSet(z_columns) /\ notna(row[ZCol(m)])})

\* faulty variant: one metric of each group is enough
coverage_keep_one(c, row) ==
    LET groups == coverage_groups(c.is_batter)
    IN  /\ notna_count(row, groups[1], c.z_columns) >= 1
        /\ notna_count(row, groups[2], c.z_columns) >= 1

\* _filter_candidates_by_metrics: whether a candidate row stays
coverage_keep(c, row) ==
    LET groups == coverage_groups(c.is_batter)
    IN  /\ notna_count(row, groups[1], c.z_columns) >= 2
        /\ notna_count(row, groups[2], c.z_columns) >= 2

\* _filter_candidates_by_metrics, lines 239 and 260: with no z-column of
\* either group both counts are the number 0, the mask is the bool False, and
\* candidates[False] raises KeyError
coverage_raises(c) ==
    LET groups == coverage_groups(c.is_batter)
    IN  \A g \in {1, 2} : \A m \in groups[g] : ZCol(m) \notin SeqToSet(c.z_columns)

filter_candidates_by_metrics(c, df, candidates) ==
    LET keep(i) == coverage_keep(c, df[i]) IN SelectSeq(candidates, keep)

\* DistanceCalculator.calculate_all_distances: one distance per candidate row
calculate_all_distances(weights, df, target, candidates, z_columns) ==
    [i \in SeqToSet(candidates) |->
        calculate_distance(weights, target, df[i], z_columns)]

\* faulty variant: rows of infinite distance stay
finite_only_keep_all(candidates, distance) == candidates

\* candidates[candidates["distance"] < float("inf")]
finite_only(candidates, distance) ==
    LET finite(i) == DistLess(distance[i], Inf) IN SelectSeq(candidates, finite)

\* faulty variant: the first n rows in table order
nsmallest_table_order(candidates, distance, n) ==
    IF n <= 0 THEN <<>>
    ELSE SubSeq(candidates, 1, IF n < Len(candidates) THEN n ELSE Len(candidates))

\* DataFrame.nsmallest(n, "distance"): the n rows of smallest distance in
\* ascending order, ties in table order; nothing for n <= 0
RECURSIVE nsmallest(_, _, _)
nsmallest(candidates, distance, n) ==
    IF n <= 0 \/ candidates = <<>> THEN <<>>
    ELSE LET k == CHOOSE k \in 1..Len(candidates) :
                    /\ \A j \in 1..Len(candidates) :
                          ~DistLess(distance[candidates[j]], distance[candidates[k]])
                    /\ \A j \in 1..(k - 1) :
                          DistLess(distance[candidates[k]], distance[candidates[j]])
             rest == SubSeq(candidates, 1, k - 1)
                       \o SubSeq(candidates, k + 1, Len(candidates))
         IN  <<candidates[k]>> \o nsmallest(rest, distance, n - 1)

\* max(1, min(99, pct))
clamp_1_99(pct) ==
    LET low == IF RLess(RInt(99), pct) THEN RInt(99) ELSE pct
    IN  IF RLess(low, One) THEN One ELSE low

\* faulty variant: rows of every season are ranked together
calculate_percentile_all_seasons(df, metric, value, season, higher_is_better) ==
    IF isna(value) THEN RInt(50)
    ELSE IF metric \notin Columns(df) THEN RInt(50)
    ELSE LET col_data == dropna(df, metric)
             below == {i \in col_data : Val(df[i][metric]) < Val(value)}
             pct == RNorm(<<100 * Cardinality(below), Cardinality(col_data)>>)
         IN  IF col_data = {} THEN RInt(50)
             ELSE clamp_1_99(IF higher_is_better THEN pct ELSE RSub(RInt(100), pct))

\* faulty variant: rows at the value count as below it
calculate_percentile_at_or_below(df, metric, value, season, higher_is_better) ==
    IF isna(value) THEN RInt(50)
    ELSE IF metric \notin Columns(df) THEN RInt(50)
    ELSE LET col_data == {i \in dropna(df, metric) : df[i]["season"] = season}
             below == {i \in col_data : Val(df[i][metric]) <= Val(value)}
             pct == RNorm(<<100 * Cardinality(below), Cardinality(col_data)>>)
         IN  IF col_data = {} THEN RInt(50)
             ELSE clamp_1_99(IF higher_is_better THEN pct ELSE RSub(RInt(100), pct))

\* SimilarityEngine._calculate_percentile
calculate_percentile(df, metric, value, season, higher_is_better) ==
    IF isna(value) THEN RInt(50)
    ELSE IF metric \notin Columns(df) THEN RInt(50)
    ELSE LET col_data == {i \in dropna(df, metric) : df[i]["season"] = season}
             below == {i \in col_data : Val(df[i][metric]) < Val(value)}
             pct == RNorm(<<100 * Cardinality(below), Cardinality(col_data)>>)
         IN  IF col_data = {} THEN RInt(50)
             ELSE clamp_1_99(IF higher_is_better THEN pct ELSE RSub(RInt(100), pct))

PctKey(m) == m \o "_pct"

\* min(99, max(1, (val - 8) / 17 * 100)); with val NaN, max(1, nan) is 1
pulled_fb_estimate(val) ==
    IF isna(val) THEN One
    ELSE clamp_1_99(RNorm(<<(Val(val) - 8) * 100, 17>>))

\* SimilarityEngine._add_percentiles: the percentile map of a result dict.
\* A NaN taken from the table is not None, so its metric gets an entry.
add_percentiles(c, df, result) ==
    LET season == result["season"]
        ranked == {m \in SeqToSet(c.metrics_used) : m \in DOMAIN result}
                    \cup (IF c.sanity_metric \in DOMAIN result
                          THEN {c.sanity_metric} ELSE {})
        estimated == IF c.is_batter /\ "pulled_fb_pct" \in DOMAIN result
                     THEN {"pulled_fb_pct"} ELSE {}
        key_metric(k) == CHOOSE m \in ranked \cup estimated : PctKey(m) = k
    IN  [k \in {PctKey(m) : m \in ranked \cup estimated} |->
            IF key_metric(k) \in estimated
            THEN pulled_fb_estimate(result["pulled_fb_pct"])
            ELSE calculate_percentile(df, key_metric(k), result[key_metric(k)],
                                      season, key_metric(k) \notin c.lower_is_better)]

\* SimilarityEngine._get_pulled_fb_pct; on_demand is what
\* PulledFlyBallCalculator.calculate_for_player_season answers from the cache
\* or the network (None when it has no data or raises)
get_pulled_fb_pct(c, row, on_demand) ==
    IF ~c.is_batter THEN NA
    ELSE IF "pulled_fb_pct" \in DOMAIN row /\ notna(row["pulled_fb_pct"])
         THEN row["pulled_fb_pct"]
         ELSE on_demand

\* PulledFlyBallCalculator.__init__ builds a CacheManager, which creates its
\* directory; only the batter engine holds a calculator
constructor_io(kind) ==
    IF kind = "batter" THEN <<[op |-> "mkdir", path |-> "data/cache"]>> ELSE <<>>

\* the requests _get_pulled_fb_pct sends to calculate_for_player_season (a
\* cache read, then a Statcast fetch and a cache write when nothing is cached)
\* for the rows of the returned records, in order
RECURSIVE calculator_requests(_, _)
calculator_requests(c, rows) ==
    IF rows = <<>> \/ ~c.is_batter THEN <<>>
    ELSE LET row == Head(rows)
             stored == "pulled_fb_pct" \in DOMAIN row /\ notna(row["pulled_fb_pct"])
         IN  (IF stored THEN <<>>
              ELSE <<[op |-> "calculate_for_player_season",
                      player_id |-> row["mlbam_id"], year |-> row["season"]]>>)
             \o calculator_requests(c, Tail(rows))

\* the result dict built for one row by find_similar (lines 180-211) and
\* get_player_season (lines 397-424), before the ranking fields are added.
\* The model's tables hold no first_name / last_name column.
player_record(c, df, row, on_demand) ==
    LET pulled_fb == get_pulled_fb_pct(c, row, on_demand)
        stats == {st \in SeqToSet(c.result_stats) :
                     st \in DOMAIN row /\ notna(row[st])}
        metrics == {m \in SeqToSet(c.metrics_used) : m \in DOMAIN row}
        sanity == IF c.sanity_metric \in DOMAIN row THEN {c.sanity_metric} ELSE {}
        pulled == IF c.is_batter /\ notna(pulled_fb) THEN {"pulled_fb_pct"} ELSE {}
        result == [k \in {"mlbam_id", "season"} \cup metrics \cup sanity
                           \cup stats \cup pulled |->
                      IF k \in pulled THEN pulled_fb ELSE row[k]]
    IN  [k \in DOMAIN result \cup {"percentiles"} |->
            IF k = "percentiles" THEN add_percentiles(c, df, result)
            ELSE result[k]]

\* a result dict with the ranking fields; the distance is kept exact (the
\* code rounds it to four decimals, which keeps the order)
ranked_record(c, df, max_dist, row, dist, on_demand) ==
    LET rec == player_record(c, df, row, on_demand)
    IN  [k \in DOMAIN rec \cup {"similarity", "distance"} |->
            IF k = "similarity" THEN distance_to_similarity(dist, max_dist)
            ELSE IF k = "distance" THEN dist
            ELSE rec[k]]

\* SimilarityEngine.find_similar: the returned list, with the locals a claim
\* refers to (the candidates after each step, as row positions)
find_similar(c, df, max_dist, player_id, season, top_n, exclude_same_player, on_demand) ==
    LET mask == target_mask(df, player_id, season)
        target == df[FirstOf(mask)]
        pool == candidate_pool(df, mask, player_id, exclude_same_player)
        sane == sanity_filter(c, df, target, pool)
        role == IF c.is_batter \/ sane = <<>>
                THEN [raised |-> FALSE, rows |-> sane]
                ELSE filter_by_pitcher_role(df, target, sane)
        covered == filter_candidates_by_metrics(c, df, role.rows)
        distances == calculate_all_distances(c.weights, df, target, covered,
                                             c.z_columns)
        comparable == finite_only(covered, distances)
        top_matches == nsmallest(comparable, distances, top_n)
    IN  IF mask = {}
        THEN [raised |-> FALSE, found |-> FALSE, results |-> <<>>]
        ELSE IF role.raised \/ (role.rows # <<>> /\ coverage_raises(c))
        THEN [raised |-> TRUE, found |-> TRUE, target |-> FirstOf(mask),
              pool |-> pool, sane |-> sane, results |-> <<>>]
        ELSE [raised |-> FALSE, found |-> TRUE,
              target |-> FirstOf(mask),
              pool |-> pool, sane |-> sane, role |-> role.rows,
              covered |-> covered, comparable |-> comparable,
              distances |-> distances,
              top_matches |-> top_matches,
              results |-> [k \in 1..Len(top_matches) |->
                              ranked_record(c, df, max_dist, df[top_matches[k]],
                                            distances[top_matches[k]], on_demand)]]

\* SimilarityEngine.get_player_season: None (NA) when no row matches
get_player_season(c, df, player_id, season, on_demand) ==
    LET mask == target_mask(df, player_id, season)
    IN  IF mask = {} THEN NA
        ELSE Some(player_record(c, df, df[FirstOf(mask)], on_demand))

----------------------------------------------------------------------------
(* PitchSimilarityEngine.                                                  *)

PITCH_METRIC_WEIGHTS ==
    [m \in {"avg_velo", "avg_ivb", "avg_ihb", "avg_spin", "stuff_plus",
            "whiff_pct", "chase_pct", "zone_pct"} |->
        CASE m \in {"avg_velo", "stuff_plus", "whiff_pct"} -> Tenths(10)
          [] m \in {"avg_ivb", "avg_ihb"} -> Tenths(9)
          [] m = "chase_pct" -> Tenths(8)
          [] m = "avg_spin" -> Tenths(7)
          [] OTHER -> Tenths(6)]

PITCH_COMPARISON_METRICS ==
    <<"avg_velo", "avg_ivb", "avg_ihb", "avg_spin", "stuff_plus", "whiff_pct",
      "chase_pct", "zone_pct">>

\* the floor for a pitch type to be in the dataset at all
MIN_PITCHES == 50
MIN_COMP_PITCHES == 100

\* the pitch types of the model, in the order groupby("pitch_type") sorts them
PitchTypes == <<"FF", "SL">>

\* PitchSimilarityEngine.__init__, lines 27-40
NewPitchEngine(df) ==
    LET metrics == available_metrics(PITCH_COMPARISON_METRICS, df)
    IN  [kind |-> "pitch",
         weights |-> PITCH_METRIC_WEIGHTS,
         metrics |-> metrics,
         z_columns |-> z_names(metrics)]

\* the rows of one pitch type, in table order
pitch_group(df, pitch_type) ==
    LET same(row) == row["pitch_type"] = pitch_type IN SelectSeq(df, same)

RECURSIVE concat(_)
concat(parts) == IF parts = <<>> THEN <<>> ELSE Head(parts) \o concat(Tail(parts))

\* faulty variant: one normalizer is fitted on the rows of every pitch type
normalize_all_pitches(c, df) ==
    LET thrown(pt) == pitch_group(df, pt) # <<>>
        types == SelectSeq(PitchTypes, thrown)
        fitted(pt) == fit(NewNormalizer, df, c.metrics)
        parts == [k \in 1..Len(types) |->
                     transform(fitted(types[k]), pitch_group(df, types[k]), c.metrics)]
    IN  [normalizers |-> [pt \in SeqToSet(types) |-> fitted(pt)],
         dataset |-> IF types = <<>> THEN df ELSE concat(parts)]

\* _normalize_by_pitch_type, lines 45-59: every group is normalized by its
\* own MetricNormalizer and the groups are concatenated in key order
normalize_by_pitch_type(c, df) ==
    LET thrown(pt) == pitch_group(df, pt) # <<>>
        types == SelectSeq(PitchTypes, thrown)
        fitted(pt) == fit(NewNormalizer, pitch_group(df, pt), c.metrics)
        parts == [k \in 1..Len(types) |->
                     transform(fitted(types[k]), pitch_group(df, types[k]), c.metrics)]
    IN  [normalizers |-> [pt \in SeqToSet(types) |-> fitted(pt)],
         dataset |-> IF types = <<>> THEN df ELSE concat(parts)]

\* faulty variant: the dataset floor stands in for the comparison floor
pitch_candidates_dataset_floor(df, target, player_id) ==
    LET comp(i) ==
            /\ df[i]["pitch_type"] = target["pitch_type"]
            /\ df[i]["mlbam_id"] # player_id
            /\ notna(df[i]["n_pitches"])
            /\ Val(df[i]["n_pitches"]) >= MIN_PITCHES
            /\ notna(df[i]["stuff_plus"])
        same_role(i) ==
            /\ notna(df[i]["is_starter"])
            /\ df[i]["is_starter"] = target["is_starter"]
        candidates == SelectSeq(Indices(df), comp)
    IN  IF "is_starter" \in Columns(df) /\ notna(target["is_starter"])
        THEN SelectSeq(candidates, same_role)
        ELSE candidates

\* faulty variant: a candidate without a role flag passes the role match
pitch_candidates_keep_unknown_role(df, target, player_id) ==
    LET comp(i) ==
            /\ df[i]["pitch_type"] = target["pitch_type"]
            /\ df[i]["mlbam_id"] # player_id
            /\ notna(df[i]["n_pitches"])
            /\ Val(df[i]["n_pitches"]) >= MIN_COMP_PITCHES
            /\ notna(df[i]["stuff_plus"])
        same_role(i) ==
            \/ isna(df[i]["is_starter"])
            \/ df[i]["is_starter"] = target["is_starter"]
        candidates == SelectSeq(Indices(df), comp)
    IN  IF "is_starter" \in Columns(df) /\ notna(target["is_starter"])
        THEN SelectSeq(candidates, same_role)
        ELSE candidates

\* find_similar_pitches, lines 148-162: the candidates of one target row
pitch_candidates(df, target, player_id) ==
    LET comp(i) ==
            /\ df[i]["pitch_type"] = target["pitch_type"]
            /\ df[i]["mlbam_id"] # player_id
            /\ notna(df[i]["n_pitches"])
            /\ Val(df[i]["n_pitches"]) >= MIN_COMP_PITCHES
            /\ notna(df[i]["stuff_plus"])
        same_role(i) ==
            /\ notna(df[i]["is_starter"])
            /\ df[i]["is_starter"] = target["is_starter"]
        candidates == SelectSeq(Indices(df), comp)
    IN  IF "is_starter" \in Columns(df) /\ notna(target["is_starter"])
        THEN SelectSeq(candidates, same_role)
        ELSE candidates

\* the match dict of find_similar_pitches, lines 193-213 (the model's tables
\* hold no pitch_name, first_name, last_name or arm_angle column)
match_dict(c, max_dist, match, dist) ==
    LET metrics == {m \in SeqToSet(c.metrics) : m \in DOMAIN match /\ notna(match[m])}
    IN  [k \in {"mlbam_id", "season", "similarity", "distance", "pitch_type",
                "pitch_name", "n_pitches"} \cup metrics |->
            CASE k = "similarity" -> distance_to_similarity(dist, max_dist)
              [] k = "distance" -> dist
              [] k = "pitch_name" -> match["pitch_type"]
              [] k = "n_pitches" -> fillna0(series_get(match, "n_pitches"))
              [] OTHER -> match[k]]

\* faulty variant: a turn without a comparable candidate stores its empty list
pitch_matches_always_stored(c, df, max_dist, t, player_id, top_n) ==
    LET target == df[t]
        candidates == pitch_candidates(df, target, player_id)
        available_z == LET there(z) == z \in Columns(df)
                       IN  SelectSeq(c.z_columns, there)
        distances == calculate_all_distances(c.weights, df, target, candidates,
                                             available_z)
        comparable == IF available_z = <<>> THEN <<>>
                      ELSE finite_only(candidates, distances)
        top_matches == nsmallest(comparable, distances, top_n)
    IN  [pitch_type |-> target["pitch_type"],
         candidates |-> candidates,
         distances |-> distances,
         comparable |-> comparable,
         top_matches |-> top_matches,
         stored |-> TRUE,
         matches |-> [k \in 1..Len(top_matches) |->
                         match_dict(c, max_dist, df[top_matches[k]],
                                    distances[top_matches[k]])]]

\* find_similar_pitches, lines 143-217: one turn of the loop over the target
\* rows; stored is false when the turn ends in `continue`
pitch_matches(c, df, max_dist, t, player_id, top_n) ==
    LET target == df[t]
        candidates == pitch_candidates(df, target, player_id)
        available_z == LET there(z) == z \in Columns(df)
                       IN  SelectSeq(c.z_columns, there)
        distances == calculate_all_distances(c.weights, df, target, candidates,
                                             available_z)
        comparable == IF available_z = <<>> THEN <<>>
                      ELSE finite_only(candidates, distances)
        top_matches == nsmallest(comparable, distances, top_n)
    IN  [pitch_type |-> target["pitch_type"],
         candidates |-> candidates,
         distances |-> distances,
         comparable |-> comparable,
         top_matches |-> top_matches,
         stored |-> comparable # <<>>,
         matches |-> [k \in 1..Len(top_matches) |->
                         match_dict(c, max_dist, df[top_matches[k]],
                                    distances[top_matches[k]])]]

\* PitchSimilarityEngine.find_similar_pitches: the returned dict, with the
\* locals of every turn of the loop.  self.dataset["n_pitches"] and
\* self.dataset["stuff_plus"] raise KeyError without the column.
find_similar_pitches(c, df, max_dist, player_id, season, top_n) ==
    LET mask == target_mask(df, player_id, season)
        per_target == [t \in mask |-> pitch_matches(c, df, max_dist, t, player_id, top_n)]
        stored == {t \in mask : per_target[t].stored}
        types == {df[t]["pitch_type"] : t \in stored}
        last(pt) == CHOOSE t \in stored :
                       /\ df[t]["pitch_type"] = pt
                       /\ \A u \in stored : df[u]["pitch_type"] = pt => u <= t
    IN  IF mask = {}
        THEN [raised |-> FALSE, per_target |-> <<>>, results |-> <<>>]
        ELSE IF "n_pitches" \notin Columns(df) \/ "stuff_plus" \notin Columns(df)
        THEN [raised |-> TRUE, per_target |-> <<>>, results |-> <<>>]
        ELSE [raised |-> FALSE,
              per_target |-> per_target,
              results |-> [pt \in types |-> per_target[last(pt)].matches]]

----------------------------------------------------------------------------
(* The tables the engines are constructed on.  mlbam_id, season and        *)
(* pitch_type hold plain values; every other cell is nullable.             *)

BatterRow(ev, brl, hh, k, bb, pfb, xw) ==
    [exit_velocity |-> ev, barrel_pct |-> brl, hard_hit_pct |-> hh,
     k_pct |-> k, bb_pct |-> bb, pulled_fb_pct |-> pfb, xwoba |-> xw]

\* xwoba in thousandths
BatterShapes ==
    [complete |-> BatterRow(Some(90), Some(10), Some(40), Some(20), Some(10),
                            Some(12), Some(320)),
     no_barrel |-> BatterRow(Some(92), NA, Some(42), Some(22), Some(8),
                             NA, Some(345)),
     barrel_only |-> BatterRow(NA, Some(10), NA, NA, NA, NA, Some(330)),
     blank |-> BatterRow(NA, NA, NA, NA, NA, NA, NA),
     one_batted |-> BatterRow(Some(90), NA, NA, Some(20), Some(10), NA, Some(310)),
     slugger |-> BatterRow(Some(92), Some(12), Some(42), Some(22), Some(10),
                           Some(30), Some(360))]

PitcherRow(k, whiff, bb, xera, g, gs, ip) ==
    [k_pct |-> k, whiff_pct |-> whiff, bb_pct |-> bb, xera |-> xera,
     G |-> g, GS |-> gs, IP |-> ip]

\* xera in tenths
PitcherShapes ==
    [starter |-> PitcherRow(Some(25), Some(30), Some(8), Some(35),
                            Some(30), Some(30), Some(180)),
     reliever |-> PitcherRow(Some(27), Some(32), Some(10), Some(38),
                             Some(60), Some(2), Some(65)),
     call_up |-> PitcherRow(Some(25), Some(32), Some(8), Some(40),
                            Some(10), Some(5), Some(40)),
     unknown |-> PitcherRow(Some(25), Some(30), Some(8), Some(36), NA, NA, NA),
     floor |-> PitcherRow(Some(27), NA, Some(10), Some(37),
                          Some(20), Some(20), Some(80)),
     thin |-> PitcherRow(Some(25), NA, NA, NA, Some(40), NA, Some(50)),
     far |-> PitcherRow(Some(27), Some(30), Some(10), Some(41),
                        Some(25), Some(25), Some(150)),
     no_games |-> PitcherRow(Some(25), Some(30), Some(8), Some(37),
                             Some(0), Some(0), Some(0))]

PitchRow(pt, n, starter, velo, stuff) ==
    [pitch_type |-> pt, n_pitches |-> n, is_starter |-> starter,
     avg_velo |-> velo, stuff_plus |-> stuff]

PitchShapes ==
    [base |-> [pt \in SeqToSet(PitchTypes) |->
                  PitchRow(pt, Some(150), Some(TRUE), Some(94), Some(100))],
     hard |-> [pt \in SeqToSet(PitchTypes) |->
                  PitchRow(pt, Some(100), Some(TRUE), Some(96), Some(104))],
     few |-> [pt \in SeqToSet(PitchTypes) |->
                  PitchRow(pt, Some(50), Some(TRUE), Some(94), Some(100))],
     pen |-> [pt \in SeqToSet(PitchTypes) |->
                  PitchRow(pt, Some(150), Some(FALSE), Some(96), Some(100))],
     no_role |-> [pt \in SeqToSet(PitchTypes) |->
                  PitchRow(pt, Some(150), NA, Some(94), Some(104))],
     no_velo |-> [pt \in SeqToSet(PitchTypes) |->
                  PitchRow(pt, Some(150), Some(TRUE), NA, Some(102))],
     no_stuff |-> [pt \in SeqToSet(PitchTypes) |->
                  PitchRow(pt, Some(150), Some(TRUE), Some(96), NA)]]

Key(id, season) == [mlbam_id |-> id, season |-> season]

\* the column c removed from every row
drop(df, c) ==
    [i \in 1..Len(df) |-> [k \in DOMAIN df[i] \ {c} |-> df[i][k]]]
\* only the columns cols of every row
only(df, cols) ==
    [i \in 1..Len(df) |-> [k \in DOMAIN df[i] \cap cols |-> df[i][k]]]

BatterTables ==
    {<<Key(1, 2021) @@ BatterShapes[a], Key(1, 2022) @@ BatterShapes[b],
       Key(2, 2022) @@ BatterShapes[c], Key(3, 2022) @@ BatterShapes[d]>> :
        a \in {"complete", "blank", "slugger"},
        b \in {"complete", "barrel_only", "blank"},
        c \in {"complete", "no_barrel", "barrel_only", "one_batted", "slugger"},
        d \in {"complete", "no_barrel", "blank", "one_batted", "slugger"}}

PitcherTables ==
    {<<Key(1, 2021) @@ PitcherShapes[a], Key(1, 2022) @@ PitcherShapes[b],
       Key(2, 2022) @@ PitcherShapes[c], Key(3, 2022) @@ PitcherShapes[d]>> :
        a \in {"starter", "reliever", "unknown", "no_games"},
        b \in {"starter", "reliever", "call_up", "thin"},
        c \in {"starter", "reliever", "unknown", "floor", "thin"},
        d \in {"starter", "reliever", "call_up", "unknown", "far"}}

PitchTables ==
    {<<Key(1, 2022) @@ PitchShapes[a]["FF"], Key(2, 2022) @@ PitchShapes[b]["SL"],
       Key(2, 2022) @@ PitchShapes[b]["FF"], Key(1, 2022) @@ PitchShapes["base"]["SL"],
       Key(3, 2022) @@ PitchShapes[c]["FF"], Key(4, 2021) @@ PitchShapes[d]["FF"]>> :
        a \in {"base", "pen", "no_role", "no_stuff"},
        b \in {"base", "hard", "few", "no_velo"},
        c \in {"base", "hard", "pen", "no_role", "no_velo", "no_stuff"},
        d \in {"hard", "few", "pen", "no_velo"}}

\* a table with none of the engine's metrics, and tables that lack a column
\* the queries read
BareTable == <<Key(1, 2022), Key(2, 2022)>>
PitcherTablesNoIP ==
    {drop(<<Key(1, 2022) @@ PitcherShapes[a], Key(2, 2022) @@ PitcherShapes[b]>>, "IP") :
        a \in {"starter", "reliever"}, b \in {"starter", "reliever"}}
PitchTablesNoStuff ==
    {drop(<<Key(1, 2022) @@ PitchShapes["base"]["FF"],
            Key(2, 2022) @@ PitchShapes["hard"]["FF"]>>, "stuff_plus")}

\* pitch tables without the role flag
PitchTablesNoRole ==
    {drop(<<Key(1, 2022) @@ PitchShapes[a]["FF"], Key(2, 2022) @@ PitchShapes["pen"]["FF"],
            Key(3, 2022) @@ PitchShapes["hard"]["FF"]>>, "is_starter") :
        a \in {"base", "few"}}

\* batter tables with the columns of one coverage group only, of one group
\* and a single column of the other, and of neither
SparseBatterTable ==
    <<Key(1, 2022) @@ BatterShapes["complete"], Key(2, 2022) @@ BatterShapes["slugger"],
      Key(3, 2022) @@ BatterShapes["complete"]>>
BatterTablesNoGroup ==
    {only(SparseBatterTable, {"mlbam_id", "season", "xwoba"} \cup cols) :
        cols \in {{"exit_velocity", "barrel_pct", "hard_hit_pct"},
                  {"exit_velocity", "barrel_pct", "hard_hit_pct", "k_pct"},
                  {"pulled_fb_pct"}}}

\* a batter table with a ground-ball column
GroundBallTable ==
    LET gb == <<Some(40), Some(50), Some(45)>>
    IN  [i \in 1..3 |-> SparseBatterTable[i] @@ [gb_pct |-> gb[i]]]

InputTables(kind) ==
    CASE kind = "batter" -> BatterTables \cup BatterTablesNoGroup
                              \cup {BareTable, GroundBallTable}
      [] kind = "pitcher" -> PitcherTables \cup PitcherTablesNoIP \cup {BareTable}
      [] kind = "pitch" -> PitchTables \cup PitchTablesNoStuff \cup PitchTablesNoRole
                             \cup {only(t, {"mlbam_id", "season", "pitch_type"}) :
                                      t \in PitchTablesNoStuff}

\* the constructor's arguments: the engine and its xwoba_tolerance (xwOBA in
\* thousandths)
EngineArgs ==
    {[kind |-> "batter", xwoba_tolerance |-> t] : t \in {NA, Some(0), Some(25)}}
      \cup {[kind |-> "pitcher", xwoba_tolerance |-> NA],
            [kind |-> "pitch", xwoba_tolerance |-> NA]}

PlayerIds == {1, 2, 3}
Seasons == {2021, 2022}
\* what the pulled fly ball calculator answers during one call
OnDemand == {NA, Some(5)}

----------------------------------------------------------------------------
(* Spec: an engine is constructed on a table and then queried.             *)
(* pc is "new" while the constructor runs, "failed" when it raised.        *)

Init ==
    /\ cfg \in EngineArgs
    /\ dataset \in InputTables(cfg.kind)
    /\ normalizer = NewNormalizer
    /\ max_distance = NA
    /\ pc = "new"
    /\ call = NoCall
    /\ ret = NoRet
    /\ io = <<>>

\* the metrics the constructor finds in the table
found_metrics(kind, df) ==
    IF kind = "pitch" THEN available_metrics(PITCH_COMPARISON_METRICS, df)
    ELSE available_metrics(get_metric_config(kind).primary_metrics, df)

\* SimilarityEngine.__init__ with _prepare_dataset
ConstructSeason ==
    /\ pc = "new"
    /\ cfg.kind \in {"batter", "pitcher"}
    /\ found_metrics(cfg.kind, dataset) # <<>>
    /\ LET engine == NewEngine(cfg.kind, cfg.xwoba_tolerance)
           metrics == found_metrics(cfg.kind, dataset)
           fitted == fit(NewNormalizer, dataset, metrics)
           table == transform(fitted, dataset, metrics)
       IN  /\ cfg' = [engine EXCEPT !.metrics_used = metrics,
                                    !.z_columns = z_names(metrics)]
           /\ normalizer' = fitted
           /\ dataset' = table
           /\ max_distance' =
                  Some(estimate_max_distance(table, z_names(metrics), engine.weights))
    /\ pc' = "idle"
    /\ io' = constructor_io(cfg.kind)
    /\ UNCHANGED <<call, ret>>

\* PitchSimilarityEngine.__init__ with _normalize_by_pitch_type
ConstructPitch ==
    /\ pc = "new"
    /\ cfg.kind = "pitch"
    /\ found_metrics(cfg.kind, dataset) # <<>>
    /\ LET engine == NewPitchEngine(dataset)
           normalized == normalize_by_pitch_type(engine, dataset)
       IN  /\ cfg' = engine
           /\ normalizer' = normalized.normalizers
           /\ dataset' = normalized.dataset
           /\ max_distance' =
                  Some(estimate_max_distance(normalized.dataset, engine.z_columns,
                                             engine.weights))
    /\ pc' = "idle"
    /\ io' = constructor_io(cfg.kind)
    /\ UNCHANGED <<call, ret>>

\* raise ValueError: engine.py line 69, pitch_engine.py line 34
ConstructFails ==
    /\ pc = "new"
    /\ found_metrics(cfg.kind, dataset) = <<>>
    /\ pc' = "failed"
    /\ ret' = [op |-> "raise", error |-> "ValueError"]
    /\ io' = constructor_io(cfg.kind)
    /\ UNCHANGED <<cfg, dataset, normalizer, max_distance, call>>

\* faulty variant: the candidates are not copied, so the distance column is
\* written into the engine's table
FindSimilarInPlace(player_id, season, top_n, exclude_same_player, on_demand) ==
    /\ pc = "idle"
    /\ cfg.kind \in {"batter", "pitcher"}
    /\ call' = [op |-> "find_similar", player_id |-> player_id, season |-> season,
                top_n |-> top_n, exclude_same_player |-> exclude_same_player,
                on_demand |-> on_demand]
    /\ ret' = find_similar(cfg, dataset, Val(max_distance), player_id, season,
                           top_n, exclude_same_player, on_demand)
    /\ io' = <<>>
    /\ dataset' =
          IF ret'.raised \/ ~ret'.found THEN dataset
          ELSE [i \in 1..Len(dataset) |->
                   [k \in DOMAIN dataset[i] \cup {"distance"} |->
                       IF k # "distance" THEN dataset[i][k]
                       ELSE IF i \in DOMAIN ret'.distances THEN ret'.distances[i]
                       ELSE Inf]]
    /\ pc' = "returned"
    /\ UNCHANGED <<cfg, normalizer, max_distance>>

FindSimilar(player_id, season, top_n, exclude_same_player, on_demand) ==
    /\ pc = "idle"
    /\ cfg.kind \in {"batter", "pitcher"}
    /\ call' = [op |-> "find_similar", player_id |-> player_id, season |-> season,
                top_n |-> top_n, exclude_same_player |-> exclude_same_player,
                on_demand |-> on_demand]
    /\ ret' = find_similar(cfg, dataset, Val(max_distance), player_id, season,
                           top_n, exclude_same_player, on_demand)
    /\ io' = IF ret'.raised \/ ~ret'.found THEN <<>>
             ELSE calculator_requests(cfg, [k \in 1..Len(ret'.top_matches) |->
                                               dataset[ret'.top_matches[k]]])
    /\ pc' = "returned"
    /\ UNCHANGED <<cfg, dataset, normalizer, max_distance>>

GetPlayerSeason(player_id, season, on_demand) ==
    /\ pc = "idle"
    /\ cfg.kind \in {"batter", "pitcher"}
    /\ call' = [op |-> "get_player_season", player_id |-> player_id,
                season |-> season, on_demand |-> on_demand]
    /\ ret' = get_player_season(cfg, dataset, player_id, season, on_demand)
    /\ io' = LET mask == target_mask(dataset, player_id, season)
             IN  IF mask = {} THEN <<>>
                 ELSE calculator_requests(cfg, <<dataset[FirstOf(mask)]>>)
    /\ pc' = "returned"
    /\ UNCHANGED <<cfg, dataset, normalizer, max_distance>>

FindSimilarPitches(player_id, season, top_n) ==
    /\ pc = "idle"
    /\ cfg.kind = "pitch"
    /\ call' = [op |-> "find_similar_pitches", player_id |-> player_id,
                season |-> season, top_n |-> top_n]
    /\ ret' = find_similar_pitches(cfg, dataset, Val(max_distance), player_id,
                                   season, top_n)
    /\ io' = <<>>
    /\ pc' = "returned"
    /\ UNCHANGED <<cfg, dataset, normalizer, max_distance>>

Next ==
    \/ ConstructSeason
    \/ ConstructPitch
    \/ ConstructFails
    \/ /\ pc = "idle"
       /\ cfg.kind \in {"batter", "pitcher"}
       /\ \E player_id \in PlayerIds, season \in Seasons, top_n \in 0..MaxTopN,
             exclude_same_player \in BOOLEAN,
             on_demand \in (IF cfg.is_batter THEN OnDemand ELSE {NA}) :
             FindSimilar(player_id, season, top_n, exclude_same_player, on_demand)
    \/ /\ pc = "idle"
       /\ cfg.kind \in {"batter", "pitcher"}
       /\ \E player_id \in PlayerIds, season \in Seasons,
             on_demand \in (IF cfg.is_batter THEN OnDemand ELSE {NA}) :
             GetPlayerSeason(player_id, season, on_demand)
    \/ /\ pc = "idle"
       /\ cfg.kind = "pitch"
       /\ \E player_id \in PlayerIds, season \in Seasons, top_n \in 0..MaxTopN :
             FindSimilarPitches(player_id, season, top_n)
    \/ Return

Spec == Init /\ [][Next]_vars

----------------------------------------------------------------------------
(* Claims about calculate_distance (checked under SpecDist).               *)

RECURSIVE SumFn(_, _)
SumFn(f, S) ==
    IF S = {} THEN Zero
    ELSE LET x == CHOOSE y \in S : TRUE
         IN  RAdd(f[x], SumFn(f, S \ {x}))

DistCall == pc = "returned" /\ call.op = "calculate_distance"
\* the positions of call.z_columns on which both rows have a value
Contributing ==
    {i \in 1..Len(call.z_columns) :
        /\ notna(call.target[call.z_columns[i]])
        /\ notna(call.candidate[call.z_columns[i]])}
\* the weights METRIC_WEIGHTS configures for the columns of DistCols;
\* xwoba has none
ConfiguredWeight(z_col) ==
    CASE z_col = "exit_velocity_z" -> Tenths(10)
      [] z_col = "k_pct_z" -> Tenths(8)
      [] z_col = "xwoba_z" -> One
\* weight * (target - candidate)^2 on position i, the z-scores being integers
WeightedSquare(i) ==
    LET c == call.z_columns[i]
        t == Val(call.target[c]).num[1]
        k == Val(call.candidate[c]).num[1]
    IN  RMul(ConfiguredWeight(c), RInt((t - k) * (t - k)))

\* C2: the result is the infinite sentinel exactly when no dimension has a
\* value on both sides; otherwise it is the square root of the sum, over the
\* contributing dimensions, of weight * (target - candidate)^2, the weight
\* being the configured one or 1.0, and the sum is not divided by the weights.
C2_DistanceFormula ==
    DistCall =>
        /\ IsInf(ret) <=> Contributing = {}
        /\ Contributing # {} =>
              ret = Sqrt(SumFn([i \in Contributing |-> WeightedSquare(i)],
                               Contributing))

\* a call in which a configured weight other than 1 and the default weight
\* both contribute to a non-zero distance
C2_Witness ==
    /\ DistCall
    /\ {call.z_columns[i] : i \in Contributing} = {"k_pct_z", "xwoba_z"}
    /\ call.target["k_pct_z"] # call.candidate["k_pct_z"]
    /\ call.target["xwoba_z"] # call.candidate["xwoba_z"]
    /\ isna(call.target["exit_velocity_z"])
    /\ ~IsInf(ret)

Blank(row, c) == [row EXCEPT ![c] = NA]
Without(s, i) == SubSeq(s, 1, i - 1) \o SubSeq(s, i + 1, Len(s))
\* the results with the value of position i removed from the target, and
\* from the candidate
AfterRemoval(i) ==
    {calculate_distance(cfg.weights, Blank(call.target, call.z_columns[i]),
                        call.candidate, call.z_columns),
     calculate_distance(cfg.weights, call.target,
                        Blank(call.candidate, call.z_columns[i]), call.z_columns)}

\* C10 as stated: removing a value present on both sides from one side
\* always changes the result.
C10_RemovalAlwaysChanges ==
    DistCall => \A i \in Contributing : ret \notin AfterRemoval(i)

\* C10 amended: removing the value from one side gives the distance over the
\* other dimensions (the value is skipped, never read as 0); that differs
\* from the result before exactly when the two values differed or the
\* dimension was the only contributing one.
C10_RemovalSkipsDimension ==
    DistCall =>
        \A i \in Contributing :
            /\ AfterRemoval(i) =
                  {calculate_distance(cfg.weights, call.target, call.candidate,
                                      Without(call.z_columns, i))}
            /\ ret \notin AfterRemoval(i) <=>
                  \/ call.target[call.z_columns[i]] # call.candidate[call.z_columns[i]]
                  \/ Contributing = {i}

\* a call with one contributing dimension of equal values and another of
\* different values
C10_Witness ==
    /\ DistCall
    /\ \E i, j \in Contributing :
          /\ call.target[call.z_columns[i]] = call.candidate[call.z_columns[i]]
          /\ call.target[call.z_columns[j]] # call.candidate[call.z_columns[j]]

----------------------------------------------------------------------------
(* Claims about the engines (checked under Spec).                          *)

Min(a, b) == IF a < b THEN a ELSE b

\* find_similar returned for a target row that exists
SeasonAnswered ==
    /\ pc = "returned"
    /\ call.op = "find_similar"
    /\ ret.found
    /\ ~ret.raised
\* find_similar_pitches returned for a pitcher with rows in the table
PitchAnswered ==
    /\ pc = "returned"
    /\ call.op = "find_similar_pitches"
    /\ ~ret.raised
    /\ target_mask(dataset, call.player_id, call.season) # {}

\* the table row a returned record was built from
RowOf(rec) ==
    CHOOSE i \in 1..Len(dataset) :
        /\ dataset[i]["mlbam_id"] = rec["mlbam_id"]
        /\ dataset[i]["season"] = rec["season"]
        /\ ("pitch_type" \in DOMAIN rec => dataset[i]["pitch_type"] = rec["pitch_type"])
\* the rows the records of a returned list were built from
RowsOf(list) == {RowOf(list[k]) : k \in 1..Len(list)}

\* a list is the ranking of the survivors: min(top_n, K) records, in
\* non-decreasing order of distance, none farther than a survivor left out
IsRanking(list, survivors, distances, top_n) ==
    /\ Len(list) = Min(top_n, Len(survivors))
    /\ Cardinality(RowsOf(list)) = Len(list)
    /\ RowsOf(list) \subseteq SeqToSet(survivors)
    /\ \A k \in 1..Len(list) : list[k]["distance"] = distances[RowOf(list[k])]
    /\ \A k \in 1..(Len(list) - 1) :
          ~DistLess(list[k + 1]["distance"], list[k]["distance"])
    /\ \A i \in SeqToSet(survivors) \ RowsOf(list) :
          \A k \in 1..Len(list) : ~DistLess(distances[i], list[k]["distance"])

\* the list find_similar_pitches returned for a pitch type; a type left out
\* of the dict has no record
PitchList(pt) == IF pt \in DOMAIN ret.results THEN ret.results[pt] ELSE <<>>

\* C1: whenever find_similar answers for an existing target row, and for every
\* pitch type of the target in find_similar_pitches, the returned list holds
\* exactly min(top_n, K) records, K being the number of candidates that passed
\* every filter with a finite distance; the records are in non-decreasing order
\* of distance and no survivor left out is strictly closer than a returned one.
C1_Ranking ==
    /\ SeasonAnswered =>
          IsRanking(ret.results, ret.comparable, ret.distances, call.top_n)
    /\ PitchAnswered =>
          \A t \in DOMAIN ret.per_target :
              IsRanking(PitchList(ret.per_target[t].pitch_type),
                        ret.per_target[t].comparable,
                        ret.per_target[t].distances, call.top_n)

\* three survivors at three different distances, two of them asked for
C1_Witness ==
    /\ SeasonAnswered
    /\ Len(ret.comparable) = 3
    /\ call.top_n = 2
    /\ DistLess(ret.results[1]["distance"], ret.results[2]["distance"])
    /\ \E i \in SeqToSet(ret.comparable) \ RowsOf(ret.results) :
          DistLess(ret.results[2]["distance"], ret.distances[i])
    \* the survivor left out stands before a returned one in the table
    /\ \E i \in SeqToSet(ret.comparable) \ RowsOf(ret.results) :
          \E j \in RowsOf(ret.results) : i < j

\* the sanity-check value of a row lies in the closed tolerance window of t
WithinTolerance(row, t) ==
    /\ notna(row[cfg.sanity_metric])
    /\ t - cfg.sanity_tolerance <= Val(row[cfg.sanity_metric])
    /\ Val(row[cfg.sanity_metric]) <= t + cfg.sanity_tolerance

\* C3: when the target has a sanity-check value t, the candidates that pass
\* the outcome-tolerance filter are exactly those of the pool whose own value
\* is present and lies in [t - tolerance, t + tolerance], so every returned
\* record is within the tolerance of the target; when the target's value is
\* missing the filter removes nothing.
C3_ToleranceFilter ==
    SeasonAnswered =>
        LET t == dataset[ret.target][cfg.sanity_metric]
            within(i) == WithinTolerance(dataset[i], Val(t))
        IN  IF notna(t)
            THEN /\ ret.sane = SelectSeq(ret.pool, within)
                 /\ \A k \in 1..Len(ret.results) :
                       WithinTolerance(ret.results[k], Val(t))
            ELSE ret.sane = ret.pool

\* target 0.320 with the default tolerance 0.030: the row at 0.360 is dropped
\* by the filter and the row at 0.345 is returned
C3_Witness ==
    /\ SeasonAnswered
    /\ cfg.is_batter
    /\ cfg.sanity_tolerance = SANITY_CHECK_TOLERANCE
    /\ dataset[ret.target]["xwoba"] = Some(320)
    /\ \E i \in SeqToSet(ret.pool) :
          dataset[i]["xwoba"] = Some(360) /\ i \notin SeqToSet(ret.sane)
    /\ \E k \in 1..Len(ret.results) : ret.results[k]["xwoba"] = Some(345)

\* a pitcher row's role by the GS / G >= 0.5 rule, for a row whose games are
\* known and positive (a missing GS counts as no start)
KnownGames(row) == notna(row["G"]) /\ Val(row["G"]) > 0
StarterByRule(row) == 2 * fillna0(row["GS"]) >= Val(row["G"])

\* C4: for a pitcher target with G > 0 and a known GS, every returned record
\* is in the target's role by the GS / G >= 0.5 rule: for a starter target only
\* starters, each with at least 80 innings; for a reliever target only
\* relievers, that is candidates with GS / G < 0.5.
C4_SameRole ==
    (/\ SeasonAnswered
     /\ ~cfg.is_batter
     /\ KnownGames(dataset[ret.target])
     /\ notna(dataset[ret.target]["GS"])) =>
        \A k \in 1..Len(ret.results) :
            LET row == dataset[RowOf(ret.results[k])]
            IN  /\ KnownGames(row)
                /\ StarterByRule(row) = StarterByRule(dataset[ret.target])
                /\ StarterByRule(row) =>
                      fillna0(row["IP"]) >= MIN_STARTER_COMP_IP

\* the number of a group's metrics whose z-score the row holds
ZCount(row, group) ==
    Cardinality({m \in group : ZCol(m) \in DOMAIN row /\ notna(row[ZCol(m)])})
CoverageGroups ==
    IF cfg.is_batter
    THEN {{"exit_velocity", "barrel_pct", "hard_hit_pct", "launch_angle"},
          {"chase_rate", "whiff_pct", "k_pct", "bb_pct"}}
    ELSE {{"k_pct", "whiff_pct", "chase_pct", "stuff_plus"},
          {"bb_pct", "xfip", "xera", "zone_pct"}}
Covered(row) == \A group \in CoverageGroups : ZCount(row, group) >= 2

\* C5: every record find_similar returns comes from a row with at least two
\* non-missing z-scores in each of the two coverage groups of its population;
\* a candidate with fewer than two in either group is never ranked.
C5_MetricCoverage ==
    SeasonAnswered =>
        /\ \A i \in RowsOf(ret.results) : Covered(dataset[i])
        /\ \A i \in SeqToSet(ret.role) :
              ~Covered(dataset[i]) =>
                  i \notin SeqToSet(ret.covered) /\ i \notin RowsOf(ret.results)

\* a candidate with one batted-ball metric, on which it equals the target, and
\* no plate-discipline metric reaches the coverage filter and is not returned,
\* while a farther row is
C5_Witness ==
    /\ SeasonAnswered
    /\ cfg.is_batter
    /\ \E i \in SeqToSet(ret.role) :
          /\ ZCount(dataset[i], {"exit_velocity", "barrel_pct", "hard_hit_pct",
                                 "launch_angle"}) = 1
          /\ ZCount(dataset[i], {"chase_rate", "whiff_pct", "k_pct", "bb_pct"}) = 0
          /\ calculate_distance(cfg.weights, dataset[ret.target], dataset[i],
                                cfg.z_columns) = Sqrt(Zero)
          /\ i \notin RowsOf(ret.results)
    /\ \E k \in 1..Len(ret.results) :
          DistLess(Sqrt(Zero), ret.results[k]["distance"])

\* C6: find_similar never returns the queried (player id, season) row; with
\* exclude_same_player no returned record has the target's player id; without
\* it every other row of the table, the player's other seasons included, is in
\* the candidate pool.
C6_SelfExclusion ==
    (pc = "returned" /\ call.op = "find_similar") =>
        /\ \A k \in 1..Len(ret.results) :
              /\ ~(/\ ret.results[k]["mlbam_id"] = call.player_id
                   /\ ret.results[k]["season"] = call.season)
              /\ call.exclude_same_player =>
                    ret.results[k]["mlbam_id"] # call.player_id
        /\ (SeasonAnswered /\ ~call.exclude_same_player) =>
              SeqToSet(ret.pool) =
                  {i \in 1..Len(dataset) :
                      ~(/\ dataset[i]["mlbam_id"] = call.player_id
                        /\ dataset[i]["season"] = call.season)}

\* the player's other season passes every filter and is comparable with the
\* target, yet exclude_same_player keeps it out of a non-empty answer
C6_Witness ==
    /\ SeasonAnswered
    /\ call.exclude_same_player
    /\ ret.results # <<>>
    /\ \E i \in 1..Len(dataset) :
          /\ dataset[i]["mlbam_id"] = call.player_id
          /\ dataset[i]["season"] # call.season
          /\ notna(dataset[ret.target][cfg.sanity_metric])
          /\ WithinTolerance(dataset[i], Val(dataset[ret.target][cfg.sanity_metric]))
          /\ Covered(dataset[i])
          /\ ~IsInf(calculate_distance(cfg.weights, dataset[ret.target],
                                       dataset[i], cfg.z_columns))

\* a dimension of z_columns on which both rows hold a z-score
SharedDimension(a, b, z_columns) ==
    \E z \in SeqToSet(z_columns) :
        /\ z \in DOMAIN a /\ z \in DOMAIN b
        /\ notna(a[z]) /\ notna(b[z])

\* the candidates of one query are given the infinite distance when they share
\* no dimension with the target, and none of those is in the returned list,
\* whose records all have a finite distance
NoInfinite(list, target, candidates, distances) ==
    /\ \A i \in SeqToSet(candidates) :
          ~SharedDimension(dataset[target], dataset[i], cfg.z_columns) =>
              IsInf(distances[i]) /\ i \notin RowsOf(list)
    /\ \A k \in 1..Len(list) : ~IsInf(list[k]["distance"])

\* C7: a candidate that shares with the target no dimension on which both have
\* a z-score gets the infinite distance and is in no list that find_similar or
\* find_similar_pitches returns; every returned record has a finite distance.
C7_InfiniteNeverReturned ==
    /\ SeasonAnswered =>
          NoInfinite(ret.results, ret.target, ret.covered, ret.distances)
    /\ PitchAnswered =>
          \A t \in DOMAIN ret.per_target :
              NoInfinite(PitchList(ret.per_target[t].pitch_type), t,
                         ret.per_target[t].candidates,
                         ret.per_target[t].distances)

\* a candidate that passed every filter shares no dimension with the target
\* and is left out of an answer that has room for it
C7_Witness ==
    /\ SeasonAnswered
    /\ ret.results # <<>>
    /\ Len(ret.results) < call.top_n
    /\ \E i \in SeqToSet(ret.covered) :
          ~SharedDimension(dataset[ret.target], dataset[i], cfg.z_columns)

\* the records a query returned, as a sequence
Records ==
    IF pc = "returned" /\ call.op = "find_similar" THEN ret.results
    ELSE IF pc = "returned" /\ call.op = "get_player_season" /\ notna(ret)
    THEN <<Val(ret)>>
    ELSE <<>>

\* the metrics a record reports a percentile for
Reported(rec) ==
    {m \in DOMAIN rec \ {"percentiles"} : PctKey(m) \in DOMAIN rec["percentiles"]}

\* the rows of a season that hold a value of m
SeasonRows(m, season) ==
    {i \in 1..Len(dataset) :
        /\ dataset[i]["season"] = season
        /\ m \in DOMAIN dataset[i] /\ notna(dataset[i][m])}
\* 100 * (rows of the season strictly below v) / (rows of the season with m)
RankShare(m, v, season) ==
    RNorm(<<100 * Cardinality({i \in SeasonRows(m, season) :
                                  Val(dataset[i][m]) < v}),
            Cardinality(SeasonRows(m, season))>>)
Clamp(q) == IF RLess(q, One) THEN One ELSE IF RLess(RInt(99), q) THEN RInt(99) ELSE q
\* clamp(1, 99, q): q the rank share, or 100 minus it for a lower-is-better m
RankPercentile(m, v, season) ==
    Clamp(IF m \in cfg.lower_is_better
          THEN RSub(RInt(100), RankShare(m, v, season))
          ELSE RankShare(m, v, season))
InRange(q) == RLeq(One, q) /\ RLeq(q, RInt(99))

\* the batters' pulled_fb_pct, whose reported percentile is not a rank
Estimated(m) == cfg.is_batter /\ m = "pulled_fb_pct"

HoldsMin(rec, m) ==
    /\ RowOf(rec) \in SeasonRows(m, rec["season"])
    /\ dataset[RowOf(rec)][m] = rec[m]
    /\ \A i \in SeasonRows(m, rec["season"]) : Val(rec[m]) <= Val(dataset[i][m])
HoldsMax(rec, m) ==
    /\ RowOf(rec) \in SeasonRows(m, rec["season"])
    /\ dataset[RowOf(rec)][m] = rec[m]
    /\ \A i \in SeasonRows(m, rec["season"]) : Val(dataset[i][m]) <= Val(rec[m])

\* C9 as claimed: for a metric that is not lower-is-better, the row holding the
\* season's minimum gets percentile 1 and the row holding the season's maximum
\* gets percentile 99.
C9_MinIsOneMaxIs99 ==
    \A k \in 1..Len(Records) :
        LET rec == Records[k]
        IN  \A m \in Reported(rec) \ cfg.lower_is_better :
                /\ HoldsMin(rec, m) => rec["percentiles"][PctKey(m)] = One
                /\ HoldsMax(rec, m) => rec["percentiles"][PctKey(m)] = RInt(99)

\* the rows of the season that hold the season's largest value of m
AtMax(m, season) ==
    {i \in SeasonRows(m, season) :
        \A j \in SeasonRows(m, season) : Val(dataset[j][m]) <= Val(dataset[i][m])}

\* C9 as the code has it: for a ranked metric that is not lower-is-better the
\* season's minimum gets percentile 1, and the season's maximum gets
\* clamp(1, 99, 100 * (n - k) / n), n rows of the season holding the metric and
\* k of them at the maximum: below 99 whenever n < 100 * k.
C9_MinIsOneMaxIsShare ==
    \A k \in 1..Len(Records) :
        LET rec == Records[k]
        IN  \A m \in Reported(rec) \ cfg.lower_is_better :
                ~Estimated(m) =>
                    /\ HoldsMin(rec, m) => rec["percentiles"][PctKey(m)] = One
                    /\ HoldsMax(rec, m) =>
                          LET n == Cardinality(SeasonRows(m, rec["season"]))
                              atmax == Cardinality(AtMax(m, rec["season"]))
                          IN  /\ rec["percentiles"][PctKey(m)]
                                    = Clamp(RNorm(<<100 * (n - atmax), n>>))
                              /\ n < 100 * atmax =>
                                    RLess(rec["percentiles"][PctKey(m)], RInt(99))

\* a record alone at the maximum of a three-row season (percentile 200/3) and
\* a metric on which it holds the minimum of that season
C9_Witness ==
    \E k \in 1..Len(Records) :
        LET rec == Records[k]
        IN  /\ \E m \in Reported(rec) \ cfg.lower_is_better :
                  /\ ~Estimated(m)
                  /\ HoldsMax(rec, m) /\ ~HoldsMin(rec, m)
                  /\ Cardinality(SeasonRows(m, rec["season"])) = 3
                  /\ rec["percentiles"][PctKey(m)] = RNorm(<<200, 3>>)
            /\ \E m \in Reported(rec) \ cfg.lower_is_better :
                  /\ ~Estimated(m)
                  /\ HoldsMin(rec, m) /\ ~HoldsMax(rec, m)

----------------------------------------------------------------------------
(* Claims about errors and effects (checked under Spec).                   *)

\* no row of the table has the queried player id and season
Absent ==
    ~\E i \in 1..Len(dataset) :
        /\ dataset[i]["mlbam_id"] = call.player_id
        /\ dataset[i]["season"] = call.season

\* C11: when no row has the queried (player id, season), find_similar returns
\* an empty list, get_player_season returns None and find_similar_pitches an
\* empty mapping, none of them raising; and a candidate pool that is empty
\* after a filter gives an empty result, not an error.
C11_NotFoundIsEmpty ==
    pc = "returned" =>
        /\ (call.op = "find_similar" /\ Absent) =>
              ~ret.raised /\ ret.results = <<>>
        /\ (call.op = "get_player_season" /\ Absent) => ret = NA
        /\ (call.op = "find_similar_pitches" /\ Absent) =>
              ~ret.raised /\ DOMAIN ret.results = {}
        /\ (call.op = "find_similar" /\ ~Absent) =>
              /\ (ret.pool = <<>> \/ ret.sane = <<>>) =>
                    ~ret.raised /\ ret.results = <<>>
              /\ ~ret.raised =>
                    ((ret.role = <<>> \/ ret.covered = <<>> \/ ret.comparable = <<>>)
                        => ret.results = <<>>)
        /\ (call.op = "find_similar_pitches" /\ ~Absent /\ ~ret.raised) =>
              \A t \in DOMAIN ret.per_target :
                  (ret.per_target[t].candidates = <<>>
                     \/ ret.per_target[t].comparable = <<>>)
                      => PitchList(ret.per_target[t].pitch_type) = <<>>

\* find_similar asked with top_n > 0 for a player of the table in a season the
\* player has no row in, while the season has rows
C11_Witness ==
    /\ pc = "returned"
    /\ call.op = "find_similar"
    /\ call.top_n > 0
    /\ Absent
    /\ \E i \in 1..Len(dataset) : dataset[i]["mlbam_id"] = call.player_id
    /\ \E i \in 1..Len(dataset) : dataset[i]["season"] = call.season
    /\ ret.results = <<>>

\* the metric columns the engine is configured to look for
ConfiguredMetrics ==
    CASE cfg.kind = "pitch" -> SeqToSet(PITCH_COMPARISON_METRICS)
      [] cfg.kind = "batter" -> SeqToSet(PRIMARY_METRICS)
      [] cfg.kind = "pitcher" -> SeqToSet(PITCHER_PRIMARY_METRICS)
\* the metrics the constructed engine works with
FittedMetrics ==
    IF cfg.kind = "pitch" THEN SeqToSet(cfg.metrics) ELSE SeqToSet(cfg.metrics_used)
NormalizerFitted ==
    IF cfg.kind = "pitch"
    THEN \A pt \in DOMAIN normalizer :
            normalizer[pt].fitted /\ DOMAIN normalizer[pt].means = FittedMetrics
    ELSE normalizer.fitted /\ DOMAIN normalizer.means = FittedMetrics

\* C12: the constructor raises exactly when the table has none of the
\* configured metric columns, and then no engine exists to be queried; when it
\* returns, the normalizer is fitted, the table holds a z-score column for
\* every metric found and max_distance is set.
C12_ConstructionFailsAtOnce ==
    /\ pc = "new" => call = NoCall
    /\ pc = "failed" =>
          /\ ConfiguredMetrics \cap Columns(dataset) = {}
          /\ ret = [op |-> "raise", error |-> "ValueError"]
          /\ call = NoCall
    /\ pc \in {"idle", "returned"} =>
          /\ ConfiguredMetrics \cap Columns(dataset) # {}
          /\ FittedMetrics = ConfiguredMetrics \cap Columns(dataset)
          /\ NormalizerFitted
          /\ \A m \in FittedMetrics : ZCol(m) \in Columns(dataset)
          /\ notna(max_distance)

\* the constructor raised on a table with rows and no metric column
C12_Witness ==
    /\ pc = "failed"
    /\ Len(dataset) > 0
    /\ ConfiguredMetrics \cap Columns(dataset) = {}

\* C13: a query on a constructed engine never raises, whichever columns the
\* table lacks.
C13_QueriesNeverRaise ==
    (pc = "returned" /\ call.op \in {"find_similar", "find_similar_pitches"}) =>
        ~ret.raised

\* a step taken by a constructed engine keeps everything construction built
EngineKept ==
    pc \in {"idle", "returned"} =>
        (cfg' = cfg /\ dataset' = dataset /\ normalizer' = normalizer /\ max_distance' = max_distance)

C15_NoIO ==
    io = <<>>

----------------------------------------------------------------------------
(* Claims about the normalizer (checked under SpecNorm).                   *)

FitCall == pc = "returned" /\ call.op \in {"fit", "fit_transform"}
\* the columns the last fit computed statistics for
LastFitted == SeqToSet(cfg.columns) \cap Columns(dataset)
\* the rows of the last fit have two or more values in column c, all equal
RawZero(c) == std(dataset, c) = Some(Zero)
StdFloor(sd) == IF sd = Some(Zero) THEN Some(One) ELSE sd
Requested(c) == call.columns = <<>> \/ c \in SeqToSet(call.columns)

\* C16: a fitted standard deviation of zero is stored as 1, so that no stored
\* deviation is zero when transform or get_z_score divide by it, and every row
\* of the fitted population that has a value for the metric gets z-score 0.
C16_ZeroStdFloored ==
    /\ \A c \in DOMAIN normalizer.stds : normalizer.stds[c] # Some(Zero)
    /\ FitCall =>
          \A c \in LastFitted : RawZero(c) =>
              /\ normalizer.stds[c] = Some(One)
              /\ call.op = "fit_transform" =>
                    \A i \in dropna(dataset, c) : ret.rows[i][ZCol(c)] = Some(ZInt(0))
    /\ (pc = "returned" /\ call.op = "transform" /\ call.df = dataset) =>
          \A c \in LastFitted : (RawZero(c) /\ Requested(c)) =>
              \A i \in dropna(dataset, c) : ret.rows[i][ZCol(c)] = Some(ZInt(0))
    /\ (pc = "returned" /\ call.op = "get_z_score" /\ call.column \in LastFitted
            /\ RawZero(call.column)) =>
          (~ret.raised /\ notna(ret.value) /\ Val(ret.value).rad = One)

\* a population whose values in one column are all equal has been fitted and
\* transformed
C16_Witness ==
    /\ pc = "returned"
    /\ call.op = "fit_transform"
    /\ \E c \in LastFitted :
          /\ RawZero(c)
          /\ \E i \in 1..Len(dataset) : ret.rows[i][ZCol(c)] = Some(ZInt(0))

\* C17 as stated: a requested column that holds no value is left out of the
\* fitted statistics, and transform adds no z-score column for it.
C17_EmptyColumnSkipped ==
    FitCall =>
        \A c \in LastFitted : dropna(dataset, c) = {} =>
            /\ c \notin fitted_columns(normalizer)
            /\ call.op = "fit_transform" => ZCol(c) \notin Columns(ret.rows)

\* a fit leaves the statistics of a requested column that is not in the table
\* as they were
AbsentColumnSkipped ==
    (pc = "idle" /\ pc' = "returned" /\ call'.op \in {"fit", "fit_transform"}) =>
        \A c \in SeqToSet(call'.columns) \ Columns(call'.df) :
            /\ c \in DOMAIN normalizer'.means <=> c \in DOMAIN normalizer.means
            /\ c \in DOMAIN normalizer.means =>
                  (normalizer'.means[c] = normalizer.means[c] /\ normalizer'.stds[c] = normalizer.stds[c])

\* C17: fit skips only a requested column that is not in the table (no
\* statistics from this fit, no z-score column); a column that is in the table
\* without any value is fitted with a missing mean and deviation, is listed
\* by fitted_columns, get_stats returns the missing pair, and transform adds a
\* z-score column of missing values.
C17_EmptyColumnFittedAsMissing ==
    /\ [][AbsentColumnSkipped]_vars
    /\ [](FitCall =>
            /\ LastFitted \subseteq fitted_columns(normalizer)
            /\ \A c \in SeqToSet(call.columns) \ Columns(dataset) :
                  call.op = "fit_transform" => ZCol(c) \notin Columns(ret.rows)
            /\ \A c \in LastFitted : dropna(dataset, c) = {} =>
                  /\ normalizer.means[c] = NA
                  /\ normalizer.stds[c] = NA
                  /\ call.op = "fit_transform" =>
                        \A i \in 1..Len(dataset) :
                            (ZCol(c) \in DOMAIN ret.rows[i] /\ ret.rows[i][ZCol(c)] = NA))
    /\ []((pc = "returned" /\ call.op = "get_stats") =>
            /\ ret.raised <=> call.column \notin fitted_columns(normalizer)
            /\ (call.column \in LastFitted /\ dropna(dataset, call.column) = {}) =>
                  (~ret.raised /\ ret.mean = NA /\ ret.std = NA))
    /\ []((pc = "returned" /\ call.op = "fitted_columns") =>
            ret.columns = DOMAIN normalizer.means)

\* a table with a bb_pct column that holds no value has been fitted and
\* transformed, and the column is fitted
C17_Witness ==
    /\ pc = "returned"
    /\ call.op = "fit_transform"
    /\ "bb_pct" \in LastFitted
    /\ dropna(dataset, "bb_pct") = {}
    /\ dropna(dataset, "k_pct") # {}
    /\ "bb_pct" \in fitted_columns(normalizer)
    /\ "bb_pct_z" \in Columns(ret.rows)

\* transform, get_z_score, get_stats and fitted_columns keep the statistics
StatisticsKept ==
    (pc = "idle" /\ pc' = "returned" /\ call'.op \notin {"fit", "fit_transform"}) =>
        normalizer' = normalizer

\* C18: after fit(A, metrics), transform(B, metrics) and get_z_score score
\* with the mean and the deviation of A whatever B is, transform returns B's
\* cells with the z-score columns added, the fitted statistics stay as they
\* were, and transform on a normalizer that was never fitted raises.
C18_ScoresAgainstFittedPopulation ==
    /\ [][StatisticsKept]_vars
    /\ []((pc = "returned" /\ call.op = "transform") =>
            /\ ret.raised <=> ~normalizer.fitted
            /\ ~ret.raised =>
                  /\ Len(ret.rows) = Len(call.df)
                  /\ \A i \in 1..Len(call.df) :
                        /\ \A c \in Columns(call.df) : ret.rows[i][c] = call.df[i][c]
                        /\ \A c \in LastFitted \cap Columns(call.df) : Requested(c) =>
                              ret.rows[i][ZCol(c)] =
                                  z_score(call.df[i][c], mean(dataset, c), StdFloor(std(dataset, c))))
    /\ []((pc = "returned" /\ call.op = "get_z_score") =>
            /\ ret.raised <=> call.column \notin fitted_columns(normalizer)
            /\ call.column \in LastFitted =>
                  ret.value = z_score(Some(call.value), mean(dataset, call.column),
                                      StdFloor(std(dataset, call.column))))

\* rows that were not in the fitted population have been scored
C18_Witness ==
    /\ pc = "returned"
    /\ call.op = "transform"
    /\ ~ret.raised
    /\ "k_pct" \in LastFitted
    /\ std(dataset, "k_pct") \notin {NA, Some(Zero)}
    /\ \E i \in 1..Len(call.df) :
          /\ \A j \in 1..Len(dataset) : dataset[j].k_pct # call.df[i].k_pct
          /\ notna(ret.rows[i]["k_pct_z"])

----------------------------------------------------------------------------
(* Claims about the pitch candidates (checked under Spec).                 *)

\* the rows that may be offered for the target row t, the role match aside
BasePool(t) ==
    {i \in 1..Len(dataset) :
        /\ dataset[i]["pitch_type"] = dataset[t]["pitch_type"]
        /\ dataset[i]["mlbam_id"] # call.player_id
        /\ notna(dataset[i]["n_pitches"])
        /\ Val(dataset[i]["n_pitches"]) >= 100
        /\ notna(dataset[i]["stuff_plus"])}
\* the row a match record was built from
PitchRowOf(r) ==
    {i \in 1..Len(dataset) :
        /\ dataset[i]["mlbam_id"] = r["mlbam_id"]
        /\ dataset[i]["season"] = r["season"]
        /\ dataset[i]["pitch_type"] = r["pitch_type"]}
TargetFlagKnown(t) ==
    "is_starter" \in Columns(dataset) /\ notna(dataset[t]["is_starter"])

C20_RemovedOnlyIfBothKnown ==
    PitchAnswered =>
        \A t \in DOMAIN ret.per_target :
            \A i \in BasePool(t) \ SeqToSet(ret.per_target[t].candidates) :
                /\ TargetFlagKnown(t)
                /\ notna(dataset[i]["is_starter"])
                /\ dataset[i]["is_starter"] # dataset[t]["is_starter"]

\* C20: when the target's role flag is known, the role match keeps exactly the
\* candidates whose flag is known and equal to it, so a candidate of unknown
\* role is removed; when the target's flag is unknown or the table has no
\* role column, it removes nothing.
C20_RoleMatchKeepsKnownEqual ==
    PitchAnswered =>
        \A t \in DOMAIN ret.per_target :
            SeqToSet(ret.per_target[t].candidates) =
                IF TargetFlagKnown(t)
                THEN {i \in BasePool(t) :
                         /\ notna(dataset[i]["is_starter"])
                         /\ dataset[i]["is_starter"] = dataset[t]["is_starter"]}
                ELSE BasePool(t)

\* a candidate of unknown role has been removed for a target of known role
C20_Witness ==
    /\ PitchAnswered
    /\ \E t \in DOMAIN ret.per_target :
          /\ TargetFlagKnown(t)
          /\ \E i \in BasePool(t) \ SeqToSet(ret.per_target[t].candidates) :
                isna(dataset[i]["is_starter"])

----------------------------------------------------------------------------
(* Claims about the pitch engine's groups and results (checked under Spec). *)

PitchEngineReady == cfg.kind = "pitch" /\ pc \in {"idle", "returned"}
RawColumns == Columns(dataset) \ SeqToSet(cfg.z_columns)
\* the rows of one pitch type as they were handed to the constructor
RawGroup(pt) == only(pitch_group(dataset, pt), RawColumns)
OtherPitchRows(pt, id) ==
    {Key(id, 2022) @@ PitchShapes[s][pt] : s \in {"hard", "pen", "no_velo"}}
\* what the rows of another pitch type may be replaced by: nothing, one row,
\* two rows
Replacements(pt) ==
    {<<>>} \cup {<<r>> : r \in OtherPitchRows(pt, 5)}
           \cup {<<r, q>> : r \in OtherPitchRows(pt, 5), q \in OtherPitchRows(pt, 6)}
\* the z-scored rows of type pt when the engine is constructed on the rows of
\* type pt and the rows other
GroupWith(pt, other) ==
    LET df == RawGroup(pt) \o only(other, RawColumns)
    IN  pitch_group(normalize_by_pitch_type(NewPitchEngine(df), df).dataset, pt)

\* C21: the z-scores of the rows of a pitch type are computed from the mean
\* and the deviation of the rows of that type alone: they are what they would
\* be with the rows of every other type removed, added to or replaced, and a
\* target row is only compared with rows of its own type.
C21_PerPitchTypeScale ==
    /\ (PitchEngineReady /\ pc = "idle") =>
          \A pt \in DOMAIN normalizer :
              /\ \A i \in 1..Len(dataset) : dataset[i]["pitch_type"] = pt =>
                    \A m \in SeqToSet(cfg.metrics) :
                        dataset[i][ZCol(m)] =
                            z_score(dataset[i][m], mean(RawGroup(pt), m),
                                    IF std(RawGroup(pt), m) = Some(Zero) THEN Some(One)
                                    ELSE std(RawGroup(pt), m))
              /\ \A other \in Replacements(IF pt = "FF" THEN "SL" ELSE "FF") :
                    GroupWith(pt, other) = pitch_group(dataset, pt)
    /\ PitchAnswered =>
          \A t \in DOMAIN ret.per_target :
              \A i \in SeqToSet(ret.per_target[t].candidates) :
                  dataset[i]["pitch_type"] = dataset[t]["pitch_type"]

\* an engine over two pitch types whose velocities have different means has
\* answered for both types
C21_Witness ==
    /\ PitchAnswered
    /\ DOMAIN normalizer = {"FF", "SL"}
    /\ normalizer["FF"].means["avg_velo"] # normalizer["SL"].means["avg_velo"]
    /\ DOMAIN ret.results = {"FF", "SL"}

TargetPitchTypes ==
    {dataset[t]["pitch_type"] : t \in target_mask(dataset, call.player_id, call.season)}
\* the target's row of pitch type pt has a candidate left at a finite distance
Survivors(pt) ==
    \E t \in DOMAIN ret.per_target :
        dataset[t]["pitch_type"] = pt /\ ret.per_target[t].comparable # <<>>

----------------------------------------------------------------------------
(* Claims about the similarity score (checked under Spec).                 *)

\* the lists of records a returned call holds
ResultLists ==
    IF SeasonAnswered THEN {ret.results}
    ELSE IF PitchAnswered THEN {ret.results[pt] : pt \in DOMAIN ret.results}
    ELSE {}
\* (1 - distance / max_distance) * 100 in tenths, distance and max_distance in
\* hundredths
Scaled(rec) ==
    1000 - (1000 * SqrtHundredths(rec["distance"].rad)) \div Val(max_distance)

\* C23: the similarity of a returned record is 100 when max_distance is 0 and
\* otherwise (1 - distance / max_distance) * 100 brought into [0, 100]; it
\* lies in [0, 100] (0..1000 tenths), and in one list a record at a smaller
\* distance never has a smaller similarity.
C23_SimilarityScale ==
    \A list \in ResultLists :
        \A k \in 1..Len(list) :
            /\ list[k]["similarity"] >= 0
            /\ list[k]["similarity"] <= 1000
            /\ ~IsInf(list[k]["distance"])
            /\ Val(max_distance) = 0 => list[k]["similarity"] = 1000
            /\ Val(max_distance) # 0 =>
                  list[k]["similarity"] =
                      IF Scaled(list[k]) < 0 THEN 0
                      ELSE IF Scaled(list[k]) > 1000 THEN 1000 ELSE Scaled(list[k])
            /\ \A j \in 1..Len(list) :
                  DistLess(list[j]["distance"], list[k]["distance"]) =>
                      list[j]["similarity"] >= list[k]["similarity"]

\* a list whose two records lie at different distances, the nearer with the
\* strictly larger similarity, neither at an end of the scale
C23_Witness ==
    \E list \in ResultLists :
        /\ Len(list) = 2
        /\ DistLess(list[1]["distance"], list[2]["distance"])
        /\ list[1]["similarity"] > list[2]["similarity"]
        /\ list[1]["similarity"] < 1000
        /\ list[2]["similarity"] > 0

----------------------------------------------------------------------------
(* Claims about the distance's algebra (checked under SpecDist).           *)

\* C24: calculate_distance(a, b, dims) = calculate_distance(b, a, dims) for
\* all z-rows and dimension lists, with values missing on either side and
\* when the result is the infinite sentinel.
C24_DistanceSymmetric ==
    DistCall =>
        ret = calculate_distance(cfg.weights, call.candidate, call.target,
                                 call.z_columns)

\* a call with a value missing on the target's side only, another missing on
\* the candidate's side only, and a third dimension on which the rows differ
C24_Witness ==
    /\ DistCall
    /\ Len(call.z_columns) = 3
    /\ \E i, j \in 1..3 :
          /\ isna(call.target[call.z_columns[i]])
          /\ notna(call.candidate[call.z_columns[i]])
          /\ notna(call.target[call.z_columns[j]])
          /\ isna(call.candidate[call.z_columns[j]])
    /\ ~IsInf(ret)
    /\ ret # Sqrt(Zero)

----------------------------------------------------------------------------
(* Claims about the season engine's filters and records (checked under     *)
(* Spec).                                                                  *)

\* the target's role cannot be told: no games value, no game, or no
\* games-started value
RoleUndetermined(row) ==
    \/ isna(series_get(row, "G"))
    \/ Val(series_get(row, "G")) = 0
    \/ isna(series_get(row, "GS"))

\* C25: the role filter removes no candidate when the engine compares
\* batters, when the target's games value is missing or zero, or when its
\* games-started value is missing: every candidate the tolerance filter left
\* goes on to the coverage filter.
C25_RoleFilterSkipped ==
    SeasonAnswered =>
        ((cfg.is_batter \/ RoleUndetermined(dataset[ret.target])) =>
            ret.role = ret.sane)

\* a pitcher target of undetermined role is left with a starter, a reliever
\* and a candidate below the innings floor
C25_Witness ==
    /\ SeasonAnswered
    /\ ~cfg.is_batter
    /\ RoleUndetermined(dataset[ret.target])
    /\ \E i, j \in SeqToSet(ret.role) :
          /\ KnownGames(dataset[i]) /\ StarterByRule(dataset[i])
          /\ fillna0(dataset[i]["IP"]) < MIN_STARTER_COMP_IP
          /\ KnownGames(dataset[j]) /\ ~StarterByRule(dataset[j])
    /\ ret.results # <<>>

----------------------------------------------------------------------------
(* Claims about missing values in the normalizer (checked under SpecNorm). *)

Transformed == FitCall /\ call.op = "fit_transform"
ValueCount(c) == Cardinality(dropna(dataset, c))

\* C26 as stated: for a fitted metric with at least one value in the
\* population, a row has a z-score exactly when it has a raw value.
C26_ZScoreIffValue ==
    Transformed =>
        \A c \in LastFitted : ValueCount(c) >= 1 =>
            \A i \in 1..Len(dataset) :
                notna(ret.rows[i][ZCol(c)]) <=> notna(dataset[i][c])

\* C26: for a fitted metric with at least two values in the population, a
\* row has a z-score exactly when it has a raw value; with exactly one value
\* the deviation is missing and so is every z-score, the one of the row that
\* holds the value included; a row without a raw value never has a z-score.
C26_ZScoreIffValueFromTwo ==
    Transformed =>
        \A c \in LastFitted :
            /\ \A i \in 1..Len(dataset) :
                  isna(dataset[i][c]) => isna(ret.rows[i][ZCol(c)])
            /\ ValueCount(c) >= 2 =>
                  \A i \in dropna(dataset, c) : notna(ret.rows[i][ZCol(c)])
            /\ ValueCount(c) = 1 =>
                  /\ normalizer.stds[c] = NA
                  /\ \A i \in 1..Len(dataset) : isna(ret.rows[i][ZCol(c)])

\* a population of three rows, two with different values and one without,
\* has been scored
C26_Witness ==
    /\ Transformed
    /\ Len(dataset) = 3
    /\ "k_pct" \in LastFitted
    /\ ValueCount("k_pct") = 2
    /\ std(dataset, "k_pct") # Some(Zero)
    /\ \E i \in 1..3 : isna(dataset[i]["k_pct"]) /\ isna(ret.rows[i]["k_pct_z"])
    /\ \E i \in 1..3 : notna(ret.rows[i]["k_pct_z"])

\* the direction the metric definitions of the engine's configuration give m
DefinedHigherIsBetter(m) ==
    IF cfg.is_batter THEN METRIC_HIGHER_IS_BETTER[m]
    ELSE PITCHER_METRIC_HIGHER_IS_BETTER[m]

\* C27: for every primary metric m, the percentile of m is 100 - p exactly
\* when the definition of m has higher_is_better = False: the lower-is-better
\* set of either configuration is the set of its primary metrics so defined.
C27_FlipFollowsDefinitions ==
    \A k \in 1..Len(Records) :
        LET rec == Records[k]
        IN  \A m \in Reported(rec) \cap SeqToSet(cfg.primary_metrics) :
                (notna(rec[m]) /\ ~Estimated(m) /\ SeasonRows(m, rec["season"]) # {}) =>
                    rec["percentiles"][PctKey(m)] =
                        Clamp(IF DefinedHigherIsBetter(m)
                              THEN RankShare(m, Val(rec[m]), rec["season"])
                              ELSE RSub(RInt(100), RankShare(m, Val(rec[m]), rec["season"])))

\* ---------------------------------------------------------------------
\* Claims about missing values in the records (checked under Spec)
\* ---------------------------------------------------------------------

\* C28: in a record built by find_similar or get_player_season the
\* percentile map has an entry "<metric>_pct" only for a metric whose raw
\* value in the record is non-missing; a missing value never gets a
\* substituted percentile.
C28_PercentileOnlyForValues ==
    \A k \in 1..Len(Records) :
        \A m \in Reported(Records[k]) : notna(Records[k][m])

\* ---------------------------------------------------------------------
\* Claims about the constructor's tolerance (checked under Spec)
\* ---------------------------------------------------------------------

\* the tolerance the constructor was asked for: its argument when one was
\* given, the configuration's otherwise
RequestedTolerance ==
    IF notna(cfg.xwoba_tolerance) THEN Val(cfg.xwoba_tolerance)
    ELSE get_metric_config(cfg.kind).sanity_check_tolerance

\* C29: an engine constructed with an explicit xwoba_tolerance (any value
\* >= 0) uses that value, and not the configuration's, as the maximum
\* sanity-check difference of the outcome-tolerance filter of every later
\* find_similar; the configuration's tolerance is used only when no value
\* was supplied.
C29_ExplicitToleranceUsed ==
    SeasonAnswered =>
        LET t == dataset[ret.target][cfg.sanity_metric]
            within(i) ==
                /\ notna(dataset[i][cfg.sanity_metric])
                /\ Val(t) - RequestedTolerance <= Val(dataset[i][cfg.sanity_metric])
                /\ Val(dataset[i][cfg.sanity_metric]) <= Val(t) + RequestedTolerance
        IN  /\ cfg.sanity_tolerance = RequestedTolerance
            /\ notna(t) => ret.sane = SelectSeq(ret.pool, within)

\* ---------------------------------------------------------------------
\* Claims about tables that lack a coverage group (checked under Spec)
\* ---------------------------------------------------------------------

\* the metrics of a coverage group that are columns of the table
GroupColumns(g) == coverage_groups(cfg.kind = "batter")[g] \cap Columns(dataset)
\* fewer than two metrics of one of the two coverage groups are columns
GroupShort ==
    /\ cfg.kind \in {"batter", "pitcher"}
    /\ \E g \in {1, 2} : Cardinality(GroupColumns(g)) < 2
\* construction of an engine on such a table that holds a primary metric
\* succeeds
ShortGroupConstructs ==
    (/\ pc = "new"
     /\ GroupShort
     /\ SeqToSet(get_metric_config(cfg.kind).primary_metrics) \cap Columns(dataset) # {})
        => pc' = "idle"

\* C30: when fewer than two metrics of either coverage group are columns of
\* the table, the engine's construction still succeeds as long as some primary
\* metric is a column, and find_similar never returns a non-empty list,
\* whatever the query.
C30_ShortGroupNeverAnswers ==
    /\ [][ShortGroupConstructs]_vars
    /\ []((pc = "returned" /\ call.op = "find_similar" /\ GroupShort) =>
             ret.results = <<>>)

\* on a table with three batted-ball columns and one plate-discipline column
\* a candidate with all four values reaches the coverage filter, is dropped
\* by it, and the answer is empty
C30_Witness ==
    /\ SeasonAnswered
    /\ Cardinality(GroupColumns(1)) = 3
    /\ Cardinality(GroupColumns(2)) = 1
    /\ \E i \in SeqToSet(ret.role) :
          /\ notna_count(dataset[i], coverage_groups(TRUE)[1], cfg.z_columns) >= 2
          /\ notna_count(dataset[i], coverage_groups(TRUE)[2], cfg.z_columns) = 1
    /\ ret.covered = <<>>
    /\ ret.results = <<>>

====
